---- MODULE Spec2Model ----
(***************************************************************************)
(* Verification model of orion-voice: the hotkey registry                  *)
(* (core/hotkeys.py), the playback controller and the backend selection    *)
(* (tts/engine.py), the recorder (stt/recorder.py), the hands-free listen  *)
(* loop (stt/engine.py), the recording callbacks of the orchestrator and   *)
(* the construction of playback controllers by the orchestrator and the    *)
(* API server (app.py, api/server.py).                                     *)
(***************************************************************************)
EXTENDS Integers, Sequences, FiniteSets, TLC

VARIABLES
    \* ---- HotkeyManager (core/hotkeys.py) ----
    bindings,        \* self._bindings: dict in insertion order, as a sequence of bindings
    pressed,         \* self._pressed: set of canonical keys
    active_holds,    \* self._active_holds: set of names
    active_toggles,  \* self._active_toggles: set of names
    listener,        \* self._listener is not None
    fired,           \* callbacks invoked by the last operation, in call order
    raised,          \* the last key handler ended with an exception (ValueError)
    sawEvent,        \* history: a key event has been delivered
    stable,          \* history: names registered before the first event and untouched since
    \* ---- _AudioPlayer (tts/engine.py) ----
    state,           \* self._state
    lock,            \* holder of self._lock: a caller, "worker", or "free"
    pause_event,     \* self._pause_event is set (the pause gate is open)
    stop_event,      \* self._stop_event is set
    thread,          \* self._thread: index of a worker, 0 for None
    workers,         \* the Thread objects play() has created, in creation order
    callers,         \* the threads calling play/pause/resume/stop, each with its position
    \* ---- the process: OrionVoiceApp (app.py) and the API server (api/server.py) ----
    mode,            \* the mode OrionVoiceApp.start() was called with, "off" before
    app_tts,         \* the player of OrionVoiceApp.tts, 0 while self.tts is None
    srv_tts,         \* the player of the server's global _tts, 0 while it is None
    players,         \* the _AudioPlayer objects constructed, in construction order
    \* ---- HotkeyManager, its lock and the threads that take it ----
    hk_lock,         \* holder of self._lock: "listener", a registering thread, or "free"
    ev,              \* the listener thread inside _on_press / _on_release
    regs,            \* the threads calling register / unregister, each with its position
    \* ---- _normalize_key applied to one key (core/hotkeys.py) ----
    probe,           \* a chord part, a physical key, and the results of normalizing it
    \* ---- AudioRecorder (stt/recorder.py) ----
    recording,       \* self._recording
    stream,          \* self._stream: index of a stream, 0 for None
    streams,         \* the InputStream objects constructed, in construction order
    rc_chunks,       \* self._chunks
    rc_lock,         \* holder of self._lock: a caller, "cb", or "free"
    rc_callers,      \* the threads calling start / stop, each with its position
    rc_cb,           \* the driver's thread inside _audio_callback
    captured,        \* history: the chunks appended since start() cleared the buffer
    \* ---- TTSManager (tts/engine.py) ----
    preferred,       \* self._preferred
    piper_voice,     \* self.piper._voice
    edge_voice,      \* self.edge._voice
    syn,             \* the last _synthesize call: backends tried, and its outcome
    sv,              \* the last set_voice call: its arguments, the state before, its outcome
    \* ---- STTEngine.listen (stt/engine.py) ----
    listening,       \* self._listening
    ls,              \* the thread inside listen(): its position, its locals, its outcome
    \* ---- OrionVoiceApp recording flow (app.py) ----
    rec_lock,        \* holder of self._recording_lock: a thread, or "free"
    orc,             \* the threads inside _start_recording / _stop_recording
    spawned,         \* the _transcribe_and_insert workers started, each with its audio
    \* ---- sync_push (api/sync.py) ----
    stored,          \* the committed updated_at of the note in the notes table, 0 for no row
    db_lock,         \* the connection with an open write transaction, or "free"
    pushes,          \* the requests inside sync_push, each with its position
    top,             \* history: the greatest updated_at pushed so far
    \* ---- OrionVoiceApp lifecycle (app.py, __main__.py) ----
    sh,              \* the app object and the position of main()
    \* ---- the default bindings on the keyboard (hotkeys.py, app.py) ----
    held,            \* the physical keys held down
    app_rec          \* recorder.is_recording, as the recording callbacks leave it

hkvars == <<bindings, pressed, active_holds, active_toggles, listener, fired, raised,
            sawEvent, stable>>

plvars == <<state, lock, pause_event, stop_event, thread, workers, callers>>

prvars == <<mode, app_tts, srv_tts, players>>

hlvars == <<hk_lock, ev, regs>>

rcvars == <<recording, stream, streams, rc_chunks, rc_lock, rc_callers, rc_cb, captured>>

syvars == <<preferred, piper_voice, edge_voice, syn, sv>>

lsvars == <<listening, ls>>

orvars == <<rec_lock, orc, spawned>>

snvars == <<stored, db_lock, pushes, top>>

shvars == <<sh>>

kbvars == <<held, app_rec>>

vars == <<hkvars, plvars, prvars, hlvars, probe, rcvars, syvars, lsvars, orvars, snvars, shvars, kbvars>>

\* What the steps of one component leave alone: the other components.
not_hk == <<plvars, prvars, hlvars, probe, rcvars, syvars, lsvars, orvars, snvars, shvars, kbvars>>

not_pl == <<hkvars, prvars, hlvars, probe, rcvars, syvars, lsvars, orvars, snvars, shvars, kbvars>>

not_pr == <<hkvars, plvars, hlvars, probe, rcvars, syvars, lsvars, orvars, snvars, shvars, kbvars>>

not_hl == <<plvars, prvars, probe, rcvars, syvars, lsvars, orvars, snvars, shvars, kbvars>>

not_nk == <<hkvars, plvars, prvars, hlvars, rcvars, syvars, lsvars, orvars, snvars, shvars, kbvars>>

not_rc == <<hkvars, plvars, prvars, hlvars, probe, syvars, lsvars, orvars, snvars, shvars, kbvars>>

not_sy == <<hkvars, plvars, prvars, hlvars, probe, rcvars, lsvars, orvars, snvars, shvars, kbvars>>

not_ls == <<hkvars, plvars, prvars, hlvars, probe, rcvars, syvars, orvars, snvars, shvars, kbvars>>

not_or == <<hkvars, plvars, prvars, hlvars, probe, rcvars, syvars, lsvars, snvars, shvars, kbvars>>

not_sn == <<hkvars, plvars, prvars, hlvars, probe, rcvars, syvars, lsvars, orvars, shvars, kbvars>>

not_sh == <<hkvars, plvars, prvars, hlvars, probe, rcvars, syvars, lsvars, orvars, snvars, kbvars>>

not_kb == <<hkvars, plvars, prvars, hlvars, probe, rcvars, syvars, lsvars, orvars, snvars, shvars>>

\* What a key event of the keyboard leaves alone.
not_hk_kb == <<plvars, prvars, hlvars, probe, rcvars, syvars, lsvars, orvars, snvars, shvars>>

\* What a call of the recorder by the orchestrator leaves alone.
not_rc_or == <<hkvars, plvars, prvars, hlvars, probe, syvars, lsvars, snvars, shvars, kbvars>>

(***************************************************************************)
(* Keys and chords                                                         *)
(***************************************************************************)

\* Physical keys the listener can deliver: pynput Key members by name,
\* KeyCodes by their character (upper case when shift is held).
PhysKeys == {"ctrl_l", "ctrl_r", "shift_r", "a", "A"}

\* str.lower() on the characters and names the model uses.
lower(s) ==
    CASE s = "A" -> "a"
      [] s = "Ctrl" -> "ctrl"
      [] OTHER -> s

\* The names _parse_keys knows, with the key each one stands for.
mapping ==
    [p \in {"ctrl", "shift", "alt", "cmd", "space", "tab", "enter", "esc"} |->
        CASE p = "ctrl" -> "ctrl_l"
          [] p = "shift" -> "shift"
          [] p = "alt" -> "alt_l"
          [] OTHER -> p]

\* One-character parts (after lowering) become KeyCode.from_char(part).
SingleChars == {"a", "b", "t"}

\* A chord string is modelled by its parts, i.e. by combo.split("+").
\* part_ok: the part is in the mapping or is a single character.
part_ok(part) == lower(part) \in DOMAIN mapping \/ lower(part) \in SingleChars

part_key(part) ==
    IF lower(part) \in DOMAIN mapping THEN mapping[lower(part)] ELSE lower(part)

\* _parse_keys raises ValueError("Unknown key") iff some part is not known.
parse_raises(combo) == \E i \in 1..Len(combo) : ~part_ok(combo[i])

parse_keys(combo) == {part_key(combo[i]) : i \in 1..Len(combo)}

normalize_key(key) ==
    CASE key \in {"ctrl_l", "ctrl_r"} -> "ctrl_l"
      [] key \in {"alt_l", "alt_r"} -> "alt_l"
      [] key \in {"shift", "shift_l", "shift_r"} -> "shift"
      [] OTHER -> lower(key)

(***************************************************************************)
(* Bindings                                                                *)
(***************************************************************************)

Names == {"n1", "n2"}

\* Chord strings callers register: the spec's scenario chord, a one-key chord
\* and a chord naming a key _parse_keys does not know.
Combos == {<<"Ctrl", "shift", "A">>, <<"a">>, <<"ctrl", "f1">>}

\* HotkeyBinding: keys, mode, and whether on_deactivate is given.
HotkeyBinding == [keys : Combos, mode : {"hold", "toggle"}, deact : BOOLEAN]

index_of(name) ==
    IF \E i \in 1..Len(bindings) : bindings[i].name = name
    THEN CHOOSE i \in 1..Len(bindings) : bindings[i].name = name
    ELSE 0

registered == {bindings[i].name : i \in 1..Len(bindings)}

binding_of(name) == bindings[index_of(name)].b

\* Every registered chord string parses.
all_parse == \A i \in 1..Len(bindings) : ~parse_raises(bindings[i].b.keys)

\* self._bindings[name] = binding: a dict keeps the position of a key it has.
dict_set(name, b) ==
    IF index_of(name) = 0
    THEN Append(bindings, [name |-> name, b |-> b])
    ELSE [bindings EXCEPT ![index_of(name)] = [name |-> name, b |-> b]]

dict_pop(name) ==
    SelectSeq(bindings, LAMBDA e : e.name # name)

(***************************************************************************)
(* Key handlers                                                            *)
(***************************************************************************)

\* One iteration of the loop of _on_press over self._bindings.items();
\* st carries the two active sets, the callbacks invoked and whether the
\* loop has been left by an exception.
press_body(st, e, down) ==
    IF st.raised THEN st
    ELSE IF parse_raises(e.b.keys) THEN [st EXCEPT !.raised = TRUE]
    ELSE IF ~(parse_keys(e.b.keys) \subseteq down) THEN st
    ELSE IF e.b.mode = "hold" THEN
        IF e.name \notin st.holds
        THEN [st EXCEPT !.holds = @ \cup {e.name},
                        !.fired = Append(@, <<e.name, "on_activate">>)]
        ELSE st
    ELSE
        IF e.name \in st.toggles
        THEN [st EXCEPT !.toggles = @ \ {e.name},
                        !.fired = IF e.b.deact
                                  THEN Append(@, <<e.name, "on_deactivate">>)
                                  ELSE @]
        ELSE [st EXCEPT !.toggles = @ \cup {e.name},
                        !.fired = Append(@, <<e.name, "on_activate">>)]

RECURSIVE press_loop(_, _, _)
press_loop(st, i, down) ==
    IF i > Len(bindings) THEN st
    ELSE press_loop(press_body(st, bindings[i], down), i + 1, down)

\* One iteration of the loop of _on_release over list(self._active_holds).
release_body(st, name, down) ==
    IF st.raised THEN st
    ELSE IF index_of(name) = 0 THEN [st EXCEPT !.holds = @ \ {name}]
    ELSE IF parse_raises(binding_of(name).keys) THEN [st EXCEPT !.raised = TRUE]
    ELSE IF ~(parse_keys(binding_of(name).keys) \subseteq down)
    THEN [st EXCEPT !.holds = @ \ {name},
                    !.fired = IF binding_of(name).deact
                              THEN Append(@, <<name, "on_deactivate">>)
                              ELSE @]
    ELSE st

RECURSIVE release_loop(_, _, _, _)
release_loop(st, order, i, down) ==
    IF i > Len(order) THEN st
    ELSE release_loop(release_body(st, order[i], down), order, i + 1, down)

\* The orders in which a set can be listed.
listings(S) ==
    {s \in [1..Cardinality(S) -> S] : \A i, j \in 1..Cardinality(S) : i # j => s[i] # s[j]}

start_state == [holds |-> active_holds, toggles |-> active_toggles,
                fired |-> <<>>, raised |-> FALSE]

\* _on_press(key), as far as the manager goes.
press_event(key) ==
    /\ listener
    /\ LET now == pressed \cup {normalize_key(key)}
           st == press_loop(start_state, 1, now)
       IN /\ pressed' = now
          /\ active_holds' = st.holds
          /\ active_toggles' = st.toggles
          /\ fired' = st.fired
          /\ raised' = st.raised
    /\ sawEvent' = TRUE
    /\ UNCHANGED <<bindings, listener, stable>>

on_press(key) == press_event(key) /\ UNCHANGED not_hk

\* _on_release(key), as far as the manager goes.
release_event(key) ==
    /\ listener
    /\ LET now == pressed \ {normalize_key(key)}
       IN \E order \in listings(active_holds) :
            LET st == release_loop(start_state, order, 1, now)
            IN /\ pressed' = now
               /\ active_holds' = st.holds
               /\ active_toggles' = st.toggles
               /\ fired' = st.fired
               /\ raised' = st.raised
    /\ sawEvent' = TRUE
    /\ UNCHANGED <<bindings, listener, stable>>

on_release(key) == release_event(key) /\ UNCHANGED not_hk

\* A register() that ends the activation of the name it replaces.
holds_reset(name) == active_holds \ {name}

\* register() leaves self._active_holds alone
holds_kept(name) == active_holds

register(name, b) ==
    /\ bindings' = dict_set(name, b)
    /\ active_holds' = holds_kept(name)
    /\ stable' = IF sawEvent \/ name \in registered THEN stable \ {name}
                 ELSE stable \cup {name}
    /\ fired' = <<>>
    /\ raised' = FALSE
    /\ UNCHANGED <<pressed, active_toggles, listener, sawEvent, not_hk>>

unregister(name) ==
    /\ bindings' = dict_pop(name)
    /\ active_holds' = active_holds \ {name}
    /\ active_toggles' = active_toggles \ {name}
    /\ stable' = stable \ {name}
    /\ fired' = <<>>
    /\ raised' = FALSE
    /\ UNCHANGED <<pressed, listener, sawEvent, not_hk>>

start ==
    /\ ~listener
    /\ listener' = TRUE
    /\ fired' = <<>>
    /\ raised' = FALSE
    /\ UNCHANGED <<bindings, pressed, active_holds, active_toggles, sawEvent, stable, not_hk>>

stop ==
    /\ listener
    /\ listener' = FALSE
    /\ pressed' = {}
    /\ active_holds' = {}
    /\ stable' = {}
    /\ fired' = <<>>
    /\ raised' = FALSE
    /\ UNCHANGED <<bindings, active_toggles, sawEvent, not_hk>>

HkInit ==
    /\ bindings = <<>>
    /\ pressed = {}
    /\ active_holds = {}
    /\ active_toggles = {}
    /\ listener = FALSE
    /\ fired = <<>>
    /\ raised = FALSE
    /\ sawEvent = FALSE
    /\ stable = {}

HkNext ==
    \/ \E key \in PhysKeys : on_press(key)
    \/ \E key \in PhysKeys : on_release(key)
    \/ \E name \in Names, b \in HotkeyBinding : register(name, b)
    \/ \E name \in Names : unregister(name)
    \/ start
    \/ stop

(***************************************************************************)
(* HotkeyManager with its lock: the handlers statement by statement        *)
(***************************************************************************)

\* The threads that call register() and unregister().
Regs == {"r1", "r2"}

\* The listener thread outside a handler: i is the position of its loop,
\* order the list it iterates in _on_release.
ev_rest == [pc |-> "idle", i |-> 0, order |-> <<>>]

\* The binding slot of a thread that passes none: it is idle or unregisters.
no_binding == [keys |-> <<>>, mode |-> "none", deact |-> FALSE]

reg_rest == [pc |-> "idle", op |-> "none", name |-> "none", b |-> no_binding]

\* The callers of register() and unregister(): the threads, and "cb", a
\* callback the listener thread is running inside the loop of a handler.
RegCallers == Regs \cup {"cb"}

HlInit ==
    /\ hk_lock = "free"
    /\ ev = ev_rest
    /\ regs = [t \in RegCallers |-> reg_rest]

\* A with statement that does not wait for the lock.
lock_ignored == TRUE

\* threading.Lock.acquire() returns: nobody holds the lock.
lock_free == hk_lock = "free"

\* _on_press / _on_release up to the with statement: self._pressed changes.
ev_key(key, down) ==
    /\ listener
    /\ ev.pc = "idle"
    /\ pressed' = IF down THEN pressed \cup {normalize_key(key)}
                  ELSE pressed \ {normalize_key(key)}
    /\ ev' = [ev_rest EXCEPT !.pc = IF down THEN "press_lock" ELSE "release_lock"]
    /\ fired' = <<>>
    /\ raised' = FALSE
    /\ UNCHANGED <<bindings, active_holds, active_toggles, listener, sawEvent, stable,
                   hk_lock, regs, not_hl>>

\* with self._lock, and the loop's iterator: self._bindings.items(), or
\* list(self._active_holds)
ev_lock ==
    /\ ev.pc \in {"press_lock", "release_lock"}
    /\ lock_free
    /\ hk_lock' = "listener"
    /\ IF ev.pc = "press_lock"
       THEN ev' = [pc |-> "press_loop", i |-> 1, order |-> <<>>]
       ELSE \E order \in listings(active_holds) :
                ev' = [pc |-> "release_loop", i |-> 1, order |-> order]
    /\ UNCHANGED <<hkvars, regs, not_hl>>

\* The loop is over: no item is left, or an exception has left it.
loop_over ==
    \/ raised
    \/ ev.pc = "press_loop" /\ ev.i > Len(bindings)
    \/ ev.pc = "release_loop" /\ ev.i > Len(ev.order)

\* One iteration of the handler's loop, or the end of the with block. The
\* listener thread goes on once the callback it has called has returned.
ev_run ==
    /\ ev.pc \in {"press_loop", "release_loop"}
    /\ regs["cb"].pc = "idle"
    /\ IF loop_over
       THEN /\ hk_lock' = "free"
            /\ ev' = ev_rest
            /\ UNCHANGED <<active_holds, active_toggles, fired, raised>>
       ELSE LET now == [holds |-> active_holds, toggles |-> active_toggles,
                        fired |-> fired, raised |-> FALSE]
                st == IF ev.pc = "press_loop"
                      THEN press_body(now, bindings[ev.i], pressed)
                      ELSE release_body(now, ev.order[ev.i], pressed)
            IN /\ active_holds' = st.holds
               /\ active_toggles' = st.toggles
               /\ fired' = st.fired
               /\ raised' = st.raised
               /\ ev' = [ev EXCEPT !.i = @ + 1]
               /\ UNCHANGED hk_lock
    /\ UNCHANGED <<bindings, pressed, listener, sawEvent, stable, not_hl>>

\* An iteration, or the end of the loop, with callbacks that call nothing
\* of the manager.
ev_step == ev_run /\ UNCHANGED regs

\* An iteration that invokes a callback, and the callback calls register()
\* or unregister(): the listener thread is at the with statement of the call.
cb_call(op, name, b) ==
    /\ ev_run
    /\ ~loop_over
    /\ Len(fired') > Len(fired)
    /\ regs' = [regs EXCEPT !["cb"] = [pc |-> "wait", op |-> op, name |-> name, b |-> b]]

\* register(name, binding) or unregister(name) is called: the thread is at
\* the with statement.
reg_call(t, op, name, b) ==
    /\ regs[t].pc = "idle"
    /\ regs' = [regs EXCEPT ![t] = [pc |-> "wait", op |-> op, name |-> name, b |-> b]]
    /\ UNCHANGED <<hkvars, hk_lock, ev, not_hl>>

\* with self._lock
reg_lock(t) ==
    /\ regs[t].pc = "wait"
    /\ lock_free
    /\ hk_lock' = t
    /\ regs' = [regs EXCEPT ![t].pc = IF regs[t].op = "unregister" THEN "pop" ELSE "set"]
    /\ UNCHANGED <<hkvars, ev, not_hl>>

\* self._bindings[name] = binding, and the with block ends
reg_set(t) ==
    /\ regs[t].pc = "set"
    /\ bindings' = dict_set(regs[t].name, regs[t].b)
    /\ hk_lock' = "free"
    /\ regs' = [regs EXCEPT ![t] = reg_rest]
    /\ UNCHANGED <<pressed, active_holds, active_toggles, listener, fired, raised,
                   sawEvent, stable, ev, not_hl>>

\* The three statements of unregister(); the with block ends after the last.
unreg_step(t) ==
    /\ regs[t].pc \in {"pop", "holds", "toggles"}
    /\ bindings' = IF regs[t].pc = "pop" THEN dict_pop(regs[t].name) ELSE bindings
    /\ active_holds' = IF regs[t].pc = "holds" THEN active_holds \ {regs[t].name}
                       ELSE active_holds
    /\ active_toggles' = IF regs[t].pc = "toggles" THEN active_toggles \ {regs[t].name}
                         ELSE active_toggles
    /\ hk_lock' = IF regs[t].pc = "toggles" THEN "free" ELSE hk_lock
    /\ regs' = [regs EXCEPT ![t] = CASE regs[t].pc = "pop" -> [@ EXCEPT !.pc = "holds"]
                                     [] regs[t].pc = "holds" -> [@ EXCEPT !.pc = "toggles"]
                                     [] OTHER -> reg_rest]
    /\ UNCHANGED <<pressed, listener, fired, raised, sawEvent, stable, ev, not_hl>>

\* Keys and bindings of the runs that follow the lock.
LockKeys == {"a", "shift_r"}

LockBindings == {[keys |-> <<"a">>, mode |-> "hold", deact |-> TRUE],
                 [keys |-> <<"a">>, mode |-> "toggle", deact |-> FALSE]}

HlNext ==
    \/ start
    \/ \E key \in LockKeys, down \in BOOLEAN : ev_key(key, down)
    \/ ev_lock
    \/ ev_step
    \/ \E t \in Regs, name \in Names, b \in LockBindings : reg_call(t, "register", name, b)
    \/ \E t \in Regs, name \in Names : reg_call(t, "unregister", name, no_binding)
    \/ \E t \in Regs : reg_lock(t)
    \/ \E t \in Regs : reg_set(t)
    \/ \E t \in Regs : unreg_step(t)

\* The handlers with callbacks that register and unregister bindings.
CbNext ==
    \/ start
    \/ \E key \in LockKeys, down \in BOOLEAN : ev_key(key, down)
    \/ ev_lock
    \/ ev_step
    \/ \E name \in Names, b \in LockBindings : cb_call("register", name, b)
    \/ \E name \in Names : cb_call("unregister", name, no_binding)
    \/ \E name \in Names, b \in LockBindings : reg_call("r1", "register", name, b)
    \/ \E name \in Names : reg_call("r1", "unregister", name, no_binding)
    \/ \E t \in RegCallers : reg_lock(t)
    \/ \E t \in RegCallers : reg_set(t)
    \/ \E t \in RegCallers : unreg_step(t)

(***************************************************************************)
(* _normalize_key, applied to one key                                      *)
(***************************************************************************)

\* The modifiers a chord string can name.
Modifiers == {"ctrl", "shift", "alt", "cmd"}

\* The left and the right physical key of a modifier, as pynput delivers
\* them. Key.cmd_l is the same member as Key.cmd.
variants(m) ==
    CASE m = "ctrl" -> {"ctrl_l", "ctrl_r"}
      [] m = "shift" -> {"shift_l", "shift_r"}
      [] m = "alt" -> {"alt_l", "alt_r"}
      [] m = "cmd" -> {"cmd", "cmd_r"}

\* Chord parts and physical keys the function is applied to.
ProbeParts == Modifiers \cup {"Ctrl", "a", "A", "space"}

ProbeKeys == UNION {variants(m) : m \in Modifiers} \cup {"shift", "a", "A", "space", "esc"}

no_probe == [part |-> "none", key |-> "none", outs |-> <<>>]

NkInit == probe = no_probe

NkInputs == probe \in [part : ProbeParts, key : ProbeKeys, outs : {<<>>}]

\* nk = self._normalize_key(key), then the same applied to the result
nk_apply ==
    /\ probe.part # "none"
    /\ Len(probe.outs) < 2
    /\ probe' = [probe EXCEPT !.outs =
                    Append(@, normalize_key(IF @ = <<>> THEN probe.key ELSE @[Len(@)]))]
    /\ UNCHANGED not_nk

NkNext == nk_apply

(***************************************************************************)
(* _AudioPlayer                                                            *)
(***************************************************************************)

\* The threads that call the player: the hotkey listener and the workers
\* and request handlers that speak.
Callers == {"t1", "t2"}

\* play() calls in a run.
MaxPlays == 2

\* play() calls in a run that follows one playback.
OnePlay == 1

\* Chunks of sample_rate // 10 samples in the PCM handed to play().
NumChunks == 2

chunks == [k \in 1..NumChunks |-> k]

\* A calling thread outside every call: op is the call it is in, target the
\* thread its stop() joins.
at_rest == [pc |-> "idle", op |-> "none", target |-> 0]

PlInit ==
    /\ state = "IDLE"
    /\ lock = "free"
    /\ pause_event = TRUE
    /\ stop_event = FALSE
    /\ thread = 0
    /\ workers = <<>>
    /\ callers = [c \in Callers |-> at_rest]

\* threading.Thread(target=self._playback_loop, args=(pcm, rate, on_done)):
\* cb: on_done is given; ndone: calls of on_done; and, while the output
\* function runs and until the finally block is entered, path: the output
\* path; i: chunks passed; played: chunks output, in order; early: the
\* function returned on the stop flag; resumed (history): resume() opened
\* the gate while the thread was waiting at it; flagged (history): stop()
\* set the stop flag while the thread had output to make; after (history):
\* the chunks it has passed to sd.play since.
new_thread(cb) ==
    [pc |-> "new", cb |-> cb, path |-> "none", i |-> 0, played |-> <<>>,
     early |-> FALSE, resumed |-> FALSE, ndone |-> 0, flagged |-> FALSE, after |-> 0]

\* The thread's record once the output function's locals are gone.
past_output(t, pc) ==
    [pc |-> pc, cb |-> t.cb, path |-> "none", i |-> 0, played |-> <<>>,
     early |-> FALSE, resumed |-> FALSE, ndone |-> t.ndone, flagged |-> t.flagged,
     after |-> t.after]

\* Thread.is_alive(): started and not yet finished.
is_alive(w) == workers[w].pc \notin {"new", "exited"}

goto(c, pc) == [callers EXCEPT ![c].pc = pc]

\* ---- stop(), also as the first statement of play() ----

\* The thread is in, or about to enter, an output function.
in_output(w) == workers[w].pc \in {"begin", "sd_wait", "sd_check", "sd_play", "pg_poll"}

\* with self._lock: self._stop_event.set(); self._pause_event.set()
stop_enter(c, op) ==
    /\ callers[c].pc = "idle"
    /\ lock = "free"
    /\ lock' = c
    /\ stop_event' = TRUE
    /\ pause_event' = TRUE
    /\ callers' = [callers EXCEPT ![c] = [pc |-> "st_state", op |-> op, target |-> 0]]
    /\ workers' = [w \in 1..Len(workers) |->
                     IF in_output(w) THEN [workers[w] EXCEPT !.flagged = TRUE]
                     ELSE workers[w]]
    /\ UNCHANGED <<state, thread, not_pl>>

call_stop(c) == stop_enter(c, "stop")

\* play() calls made so far: the threads created and the calls on their way
\* to creating one.
plays == Len(workers) + Cardinality({c \in Callers : callers[c].op = "play"})

call_play(c, max) ==
    /\ plays < max
    /\ stop_enter(c, "play")

\* self._state = STOPPED, and the with block ends
st_state(c) ==
    /\ callers[c].pc = "st_state"
    /\ state' = "STOPPED"
    /\ lock' = "free"
    /\ callers' = goto(c, "st_check")
    /\ UNCHANGED <<pause_event, stop_event, thread, workers, not_pl>>

\* if self._thread and self._thread.is_alive(): self._thread.join(timeout=3)
\* is entered, with the thread to wait for.
st_check(c) ==
    /\ callers[c].pc = "st_check"
    /\ callers' = IF thread # 0 /\ is_alive(thread)
                  THEN [callers EXCEPT ![c].pc = "st_wait", ![c].target = thread]
                  ELSE goto(c, "st_idle")
    /\ UNCHANGED <<state, lock, pause_event, stop_event, thread, workers, not_pl>>

\* The 3 s of join(timeout=3) can run out whatever the thread is doing.
timeout_expires == TRUE

\* join(timeout=3) returns: the thread has finished, or the 3 s have passed.
join_returns(w) == ~is_alive(w) \/ timeout_expires

st_wait(c) ==
    /\ callers[c].pc = "st_wait"
    /\ join_returns(callers[c].target)
    /\ callers' = goto(c, "st_idle")
    /\ UNCHANGED <<state, lock, pause_event, stop_event, thread, workers, not_pl>>

\* A stop() that ends without its last assignment.
state_left == state

\* PlaybackState.IDLE, the last assignment of stop()
state_idle == "IDLE"

\* self._state = IDLE; stop() returns, to its caller or into play()
st_idle(c) ==
    /\ callers[c].pc = "st_idle"
    /\ state' = state_idle
    /\ callers' = IF callers[c].op = "play"
                  THEN [callers EXCEPT ![c].pc = "pl_clear", ![c].target = 0]
                  ELSE [callers EXCEPT ![c] = at_rest]
    /\ UNCHANGED <<lock, pause_event, stop_event, thread, workers, not_pl>>

\* ---- the rest of play() ----

pl_clear(c) ==
    /\ callers[c].pc = "pl_clear"
    /\ stop_event' = FALSE
    /\ callers' = goto(c, "pl_pset")
    /\ UNCHANGED <<state, lock, pause_event, thread, workers, not_pl>>

pl_pset(c) ==
    /\ callers[c].pc = "pl_pset"
    /\ pause_event' = TRUE
    /\ callers' = goto(c, "pl_state")
    /\ UNCHANGED <<state, lock, stop_event, thread, workers, not_pl>>

pl_state(c) ==
    /\ callers[c].pc = "pl_state"
    /\ state' = "PLAYING"
    /\ callers' = goto(c, "pl_new")
    /\ UNCHANGED <<lock, pause_event, stop_event, thread, workers, not_pl>>

\* self._thread = threading.Thread(...); cb: the call's on_done is given
pl_new(c, cb) ==
    /\ callers[c].pc = "pl_new"
    /\ workers' = Append(workers, new_thread(cb))
    /\ thread' = Len(workers) + 1
    /\ callers' = goto(c, "pl_start")
    /\ UNCHANGED <<state, lock, pause_event, stop_event, not_pl>>

\* self._thread.start(): self._thread is read again; start() on a thread
\* that was already started raises RuntimeError.
pl_start(c) ==
    /\ callers[c].pc = "pl_start"
    /\ IF workers[thread].pc = "new"
       THEN workers' = [workers EXCEPT ![thread].pc = "begin"]
       ELSE workers' = workers
    /\ callers' = [callers EXCEPT ![c] = at_rest]
    /\ UNCHANGED <<state, lock, pause_event, stop_event, thread, not_pl>>

\* ---- pause() and resume() ----

\* A test that lets pause() act on every state but PAUSED.
pause_applies_unless_paused == state # "PAUSED"

\* if self._state == PlaybackState.PLAYING
pause_applies == state = "PLAYING"

\* if self._state == PlaybackState.PAUSED
resume_applies == state = "PAUSED"

\* with self._lock: the test of the state; the block ends at once if it fails
call_pause(c) ==
    /\ callers[c].pc = "idle"
    /\ lock = "free"
    /\ IF pause_applies
       THEN /\ lock' = c
            /\ callers' = [callers EXCEPT ![c].pc = "pa_clear", ![c].op = "pause"]
       ELSE UNCHANGED <<lock, callers>>
    /\ UNCHANGED <<state, pause_event, stop_event, thread, workers, not_pl>>

\* self._pause_event.clear()
pa_clear(c) ==
    /\ callers[c].pc = "pa_clear"
    /\ pause_event' = FALSE
    /\ callers' = goto(c, "pa_state")
    /\ UNCHANGED <<state, lock, stop_event, thread, workers, not_pl>>

\* self._state = PAUSED, and the with block ends
pa_state(c) ==
    /\ callers[c].pc = "pa_state"
    /\ state' = "PAUSED"
    /\ lock' = "free"
    /\ callers' = [callers EXCEPT ![c] = at_rest]
    /\ UNCHANGED <<pause_event, stop_event, thread, workers, not_pl>>

call_resume(c) ==
    /\ callers[c].pc = "idle"
    /\ lock = "free"
    /\ IF resume_applies
       THEN /\ lock' = c
            /\ callers' = [callers EXCEPT ![c].pc = "re_set", ![c].op = "resume"]
       ELSE UNCHANGED <<lock, callers>>
    /\ UNCHANGED <<state, pause_event, stop_event, thread, workers, not_pl>>

\* self._pause_event.set()
re_set(c) ==
    /\ callers[c].pc = "re_set"
    /\ pause_event' = TRUE
    /\ workers' = [w \in 1..Len(workers) |->
                     IF workers[w].pc = "sd_wait" /\ ~pause_event
                     THEN [workers[w] EXCEPT !.resumed = TRUE] ELSE workers[w]]
    /\ callers' = goto(c, "re_state")
    /\ UNCHANGED <<state, lock, stop_event, thread, not_pl>>

\* self._state = PLAYING, and the with block ends
re_state(c) ==
    /\ callers[c].pc = "re_state"
    /\ state' = "PLAYING"
    /\ lock' = "free"
    /\ callers' = [callers EXCEPT ![c] = at_rest]
    /\ UNCHANGED <<pause_event, stop_event, thread, workers, not_pl>>

\* ---- the playback thread: _playback_loop ----

step(w, pc) == [workers EXCEPT ![w].pc = pc]

\* The output paths a playback can take: sounddevice, pygame when
\* sounddevice cannot be used, none when neither can.
Paths == {"sd", "pg", "none"}

\* try: _play_with_sounddevice / except: _play_with_pygame / except: log
w_begin(w, path) ==
    /\ workers[w].pc = "begin"
    /\ workers' = [workers EXCEPT ![w].path = path,
                                  ![w].pc = CASE path = "sd" -> "sd_wait"
                                              [] path = "pg" -> "pg_poll"
                                              [] OTHER -> "fin_lock"]
    /\ UNCHANGED <<state, lock, pause_event, stop_event, thread, callers, not_pl>>

\* self._pause_event.wait()
sd_wait(w) ==
    /\ workers[w].pc = "sd_wait"
    /\ pause_event
    /\ workers' = step(w, "sd_check")
    /\ UNCHANGED <<state, lock, pause_event, stop_event, thread, callers, not_pl>>

\* if self._stop_event.is_set(): return
sd_check(w) ==
    /\ workers[w].pc = "sd_check"
    /\ workers' = IF stop_event
                  THEN [workers EXCEPT ![w].pc = "fin_lock", ![w].early = TRUE]
                  ELSE step(w, "sd_play")
    /\ UNCHANGED <<state, lock, pause_event, stop_event, thread, callers, not_pl>>

\* chunk = samples[i : i + chunk_size], for the loop's i-th pass (from 0)
chunk_at(i) == chunks[i + 1]

\* A loop that does not advance past a chunk during which the gate was closed.
next_chunk_replay(i) == IF pause_event THEN i + 1 ELSE i

\* the next value of range(0, len(samples), chunk_size), counted in chunks
next_chunk(i) == i + 1

\* sd.play(chunk, samplerate=sample_rate, blocking=True), then the loop's
\* next pass or its end
sd_play(w) ==
    /\ workers[w].pc = "sd_play"
    /\ workers' = [workers EXCEPT
                     ![w].played = Append(@, chunk_at(workers[w].i)),
                     ![w].after = IF workers[w].flagged THEN @ + 1 ELSE @,
                     ![w].i = next_chunk(@),
                     ![w].pc = IF next_chunk(workers[w].i) >= NumChunks
                               THEN "fin_lock" ELSE "sd_wait"]
    /\ UNCHANGED <<state, lock, pause_event, stop_event, thread, callers, not_pl>>

\* pygame: sound.play() hands the whole sound to the mixer, which outputs it
\* on its own; i counts the chunks the mixer has output.
channel_busy(w) == workers[w].i < NumChunks

mixer_output(w) ==
    /\ workers[w].pc = "pg_poll"
    /\ channel_busy(w)
    /\ workers' = [workers EXCEPT ![w].played = Append(@, chunk_at(workers[w].i)),
                                  ![w].i = @ + 1]
    /\ UNCHANGED <<state, lock, pause_event, stop_event, thread, callers, not_pl>>

\* One pass of the polling loop of _play_with_pygame, which ends the
\* function: while channel.get_busy(): self._pause_event.wait();
\* if self._stop_event.is_set(): channel.stop(); return
pg_poll(w) ==
    /\ workers[w].pc = "pg_poll"
    /\ ~channel_busy(w) \/ (pause_event /\ stop_event)
    /\ workers' = [workers EXCEPT ![w].pc = "fin_lock", ![w].early = channel_busy(w)]
    /\ UNCHANGED <<state, lock, pause_event, stop_event, thread, callers, not_pl>>

\* finally: with self._lock: if self._state != STOPPED
fin_lock(w) ==
    /\ workers[w].pc = "fin_lock"
    /\ lock = "free"
    /\ IF state # "STOPPED"
       THEN /\ lock' = "worker"
            /\ workers' = [workers EXCEPT ![w] = past_output(@, "fin_set")]
       ELSE /\ lock' = lock
            /\ workers' = [workers EXCEPT ![w] = past_output(@, "fin_done")]
    /\ UNCHANGED <<state, pause_event, stop_event, thread, callers, not_pl>>

\* self._state = IDLE, and the with block ends
fin_set(w) ==
    /\ workers[w].pc = "fin_set"
    /\ state' = "IDLE"
    /\ lock' = "free"
    /\ workers' = step(w, "fin_done")
    /\ UNCHANGED <<pause_event, stop_event, thread, callers, not_pl>>

\* if on_done: on_done(); the thread ends
on_done_calls(w) == IF workers[w].cb THEN 1 ELSE 0

fin_done(w) ==
    /\ workers[w].pc = "fin_done"
    /\ workers' = [workers EXCEPT ![w].ndone = @ + on_done_calls(w), ![w].pc = "exited"]
    /\ UNCHANGED <<state, lock, pause_event, stop_event, thread, callers, not_pl>>

PlSteps ==
    \/ \E c \in Callers : call_stop(c)
    \/ \E c \in Callers : st_state(c)
    \/ \E c \in Callers : st_check(c)
    \/ \E c \in Callers : st_wait(c)
    \/ \E c \in Callers : st_idle(c)
    \/ \E c \in Callers : pl_clear(c)
    \/ \E c \in Callers : pl_pset(c)
    \/ \E c \in Callers : pl_state(c)
    \/ \E c \in Callers, cb \in BOOLEAN : pl_new(c, cb)
    \/ \E c \in Callers : pl_start(c)
    \/ \E c \in Callers : call_pause(c)
    \/ \E c \in Callers : pa_clear(c)
    \/ \E c \in Callers : pa_state(c)
    \/ \E c \in Callers : call_resume(c)
    \/ \E c \in Callers : re_set(c)
    \/ \E c \in Callers : re_state(c)
    \/ \E w \in 1..Len(workers), path \in Paths : w_begin(w, path)
    \/ \E w \in 1..Len(workers) : sd_wait(w)
    \/ \E w \in 1..Len(workers) : sd_check(w)
    \/ \E w \in 1..Len(workers) : sd_play(w)
    \/ \E w \in 1..Len(workers) : mixer_output(w)
    \/ \E w \in 1..Len(workers) : pg_poll(w)
    \/ \E w \in 1..Len(workers) : fin_lock(w)
    \/ \E w \in 1..Len(workers) : fin_set(w)
    \/ \E w \in 1..Len(workers) : fin_done(w)

PlNext ==
    \/ \E c \in Callers : call_play(c, MaxPlays)
    \/ PlSteps

PlOneNext ==
    \/ \E c \in Callers : call_play(c, OnePlay)
    \/ PlSteps

\* stop() calls on a player that play() is never called on.
PlStopNext ==
    \/ \E c \in Callers : call_stop(c)
    \/ \E c \in Callers : st_state(c)
    \/ \E c \in Callers : st_check(c)
    \/ \E c \in Callers : st_idle(c)

(***************************************************************************)
(* The players of one process                                              *)
(***************************************************************************)

\* _AudioPlayer.__init__, the player seen from outside: its state, whether
\* its playback thread is alive, and the chunks that thread has output.
AudioPlayer == [state |-> "IDLE", alive |-> FALSE, i |-> 0]

\* TTSManager.__init__: self._player = _AudioPlayer()
TTSManager == Append(players, AudioPlayer)

\* play(): the previous playback stopped, a new thread started
player_play(p) == [state |-> "PLAYING", alive |-> TRUE, i |-> 0]

\* stop(): the thread joined, the state IDLE
player_stop(p) == [state |-> "IDLE", alive |-> FALSE, i |-> 0]

player_pause(p) == IF p.state = "PLAYING" THEN [p EXCEPT !.state = "PAUSED"] ELSE p

player_resume(p) == IF p.state = "PAUSED" THEN [p EXCEPT !.state = "PLAYING"] ELSE p

PrInit ==
    /\ mode = "off"
    /\ app_tts = 0
    /\ srv_tts = 0
    /\ players = <<>>

\* OrionVoiceApp.start(mode): _init_engines() in the desktop and headless
\* modes, the API server's thread in every mode.
app_start(m) ==
    /\ mode = "off"
    /\ mode' = m
    /\ IF m \in {"desktop", "headless"}
       THEN /\ players' = TTSManager
            /\ app_tts' = Len(players) + 1
       ELSE UNCHANGED <<players, app_tts>>
    /\ UNCHANGED <<srv_tts, not_pr>>

\* The hotkey actions use self.tts; they are registered when it is set.
app_call(p) ==
    /\ app_tts # 0
    /\ players' = [players EXCEPT ![app_tts] = p]
    /\ UNCHANGED <<mode, app_tts, srv_tts, not_pr>>

\* self.tts._player
app_player == players[app_tts]

\* _do_read_clipboard: self.tts.speak(text)
read_clipboard_and_speak == app_call(player_play(app_player))

\* _pause_tts: resume() if the state is PAUSED, else pause()
pause_or_resume(p) == IF p.state = "PAUSED" THEN player_resume(p) ELSE player_pause(p)

pause_tts == app_call(pause_or_resume(app_player))

\* _stop_tts
stop_tts == app_call(player_stop(app_player))

\* _get_tts(): the server's TTSManager, constructed at its first use
get_tts == IF srv_tts = 0 THEN TTSManager ELSE players

get_tts_id == IF srv_tts = 0 THEN Len(players) + 1 ELSE srv_tts

\* A request to the API server, which runs in every mode once started.
api_call(p) ==
    /\ mode # "off"
    /\ srv_tts' = get_tts_id
    /\ players' = [get_tts EXCEPT ![get_tts_id] = p]
    /\ UNCHANGED <<mode, app_tts, not_pr>>

\* _get_tts()._player
srv_player == get_tts[get_tts_id]

\* POST /api/tts/speak, /stop, /pause, /resume
tts_speak == api_call(player_play(srv_player))

tts_stop == api_call(player_stop(srv_player))

tts_pause == api_call(player_pause(srv_player))

tts_resume == api_call(player_resume(srv_player))

\* A playback thread outputs its next chunk.
player_chunk(p) ==
    /\ players[p].alive
    /\ players[p].state = "PLAYING"
    /\ players[p].i < NumChunks
    /\ players' = [players EXCEPT ![p].i = @ + 1]
    /\ UNCHANGED <<mode, app_tts, srv_tts, not_pr>>

\* A playback thread ends after the last chunk.
player_done(p) ==
    /\ players[p].alive
    /\ players[p].i = NumChunks
    /\ players' = [players EXCEPT ![p] = player_stop(@)]
    /\ UNCHANGED <<mode, app_tts, srv_tts, not_pr>>

PrNext ==
    \/ \E m \in {"server", "desktop", "headless"} : app_start(m)
    \/ read_clipboard_and_speak
    \/ pause_tts
    \/ stop_tts
    \/ tts_speak
    \/ tts_stop
    \/ tts_pause
    \/ tts_resume
    \/ \E p \in 1..Len(players) : player_chunk(p)
    \/ \E p \in 1..Len(players) : player_done(p)

(***************************************************************************)
(* AudioRecorder                                                           *)
(***************************************************************************)

\* The threads that call start() and stop().
RcCallers == {"u1", "u2"}

\* Chunks the driver delivers in a run.
MaxChunks == 2

\* InputStream objects constructed in a run.
MaxStreams == 2

\* A calling thread outside every call: last is how its last call ended,
\* ret what its last stop() returned.
rc_rest == [pc |-> "idle", last |-> "none", ret |-> <<>>]

\* The driver's thread outside _audio_callback: s is the stream that
\* calls back, n the number of chunks delivered so far.
cb_rest == [pc |-> "idle", s |-> 0, n |-> 0]

RcInit ==
    /\ recording = FALSE
    /\ stream = 0
    /\ streams = <<>>
    /\ rc_chunks = <<>>
    /\ rc_lock = "free"
    /\ rc_callers = [c \in RcCallers |-> rc_rest]
    /\ rc_cb = cb_rest
    /\ captured = <<>>

\* The call of c returns (or raises) with the outcome `last`.
rc_return(c, last, ret) ==
    [rc_callers EXCEPT ![c] = [pc |-> "idle", last |-> last, ret |-> ret]]

rc_goto(c, pc) == [rc_callers EXCEPT ![c].pc = pc]

\* A start() without the test of self._recording.
start_applies_always == TRUE

\* if self._recording: return
start_applies == ~recording

\* Streams constructed so far, and start() calls on their way to one.
opens ==
    Len(streams)
      + Cardinality({c \in RcCallers : rc_callers[c].pc \in {"sa_clear", "sa_flag", "sa_open"}})

\* start() up to the test of self._recording
start_enter(c) ==
    /\ rc_callers[c].pc = "idle"
    /\ start_applies => opens < MaxStreams
    /\ rc_callers' = IF start_applies THEN rc_goto(c, "sa_clear")
                      ELSE rc_return(c, "start_noop", rc_callers[c].ret)
    /\ UNCHANGED <<recording, stream, streams, rc_chunks, rc_lock, rc_cb, captured>>

\* start() is called by a thread of its own
call_start(c) ==
    /\ start_enter(c)
    /\ UNCHANGED not_rc

\* self._chunks.clear()
sa_clear(c) ==
    /\ rc_callers[c].pc = "sa_clear"
    /\ rc_chunks' = <<>>
    /\ captured' = <<>>
    /\ rc_callers' = rc_goto(c, "sa_flag")
    /\ UNCHANGED <<recording, stream, streams, rc_lock, rc_cb, not_rc>>

\* self._recording = True
sa_flag(c) ==
    /\ rc_callers[c].pc = "sa_flag"
    /\ recording' = TRUE
    /\ rc_callers' = rc_goto(c, "sa_open")
    /\ UNCHANGED <<stream, streams, rc_chunks, rc_lock, rc_cb, captured, not_rc>>

\* self._stream = sd.InputStream(...): the device is opened, or
\* PortAudioError is raised and self._stream keeps its value.
sa_open(c, ok) ==
    /\ rc_callers[c].pc = "sa_open"
    /\ IF ok
       THEN /\ streams' = Append(streams, "open")
            /\ stream' = Len(streams) + 1
            /\ rc_callers' = rc_goto(c, "sa_start")
       ELSE /\ rc_callers' = rc_goto(c, "sa_except")
            /\ UNCHANGED <<stream, streams>>
    /\ UNCHANGED <<recording, rc_chunks, rc_lock, rc_cb, captured, not_rc>>

\* self._stream.start(): the stream becomes active and start() returns, or
\* PortAudioError is raised; on None it is an AttributeError, which the
\* except clause does not catch.
sa_start(c, ok) ==
    /\ rc_callers[c].pc = "sa_start"
    /\ IF stream = 0
       THEN /\ rc_callers' = rc_return(c, "error", rc_callers[c].ret)
            /\ UNCHANGED streams
       ELSE IF ok
       THEN /\ streams' = [streams EXCEPT ![stream] = IF @ = "closed" THEN @ ELSE "active"]
            /\ rc_callers' = rc_return(c, "started", rc_callers[c].ret)
       ELSE /\ rc_callers' = rc_goto(c, "sa_except")
            /\ UNCHANGED streams
    /\ UNCHANGED <<recording, stream, rc_chunks, rc_lock, rc_cb, captured, not_rc>>

\* except sd.PortAudioError: self._recording = False; raise RuntimeError
sa_except(c) ==
    /\ rc_callers[c].pc = "sa_except"
    /\ recording' = FALSE
    /\ rc_callers' = rc_return(c, "start_failed", rc_callers[c].ret)
    /\ UNCHANGED <<stream, streams, rc_chunks, rc_lock, rc_cb, captured, not_rc>>

\* A stop() without the test of self._recording.
stop_applies_always == TRUE

\* if not self._recording: return np.array([])
stop_applies == recording

\* stop() up to the test of self._recording
rc_stop_enter(c) ==
    /\ rc_callers[c].pc = "idle"
    /\ rc_callers' = IF stop_applies THEN rc_goto(c, "sp_flag")
                      ELSE rc_return(c, "stop_noop", <<>>)
    /\ UNCHANGED <<recording, stream, streams, rc_chunks, rc_lock, rc_cb, captured>>

\* stop() is called by a thread of its own
rc_call_stop(c) ==
    /\ rc_stop_enter(c)
    /\ UNCHANGED not_rc

\* self._recording = False; if self._stream is not None
sp_flag(c) ==
    /\ rc_callers[c].pc = "sp_flag"
    /\ recording' = FALSE
    /\ rc_callers' = rc_goto(c, IF stream # 0 THEN "sp_stop" ELSE "sp_lock")
    /\ UNCHANGED <<stream, streams, rc_chunks, rc_lock, rc_cb, captured, not_rc>>

\* An InputStream.stop() that does not wait for a running callback.
stream_abandoned(s) == TRUE

\* InputStream.stop() returns once no callback of the stream is running.
stream_quiet(s) == rc_cb.pc = "idle" \/ rc_cb.s # s

\* self._stream.stop(); self._stream.close(); self._stream = None, each of
\* them reading self._stream (AttributeError on None)
sp_stream(c) ==
    /\ rc_callers[c].pc \in {"sp_stop", "sp_close", "sp_none"}
    /\ stream # 0 /\ rc_callers[c].pc = "sp_stop" => stream_quiet(stream)
    /\ streams' = CASE stream = 0 \/ rc_callers[c].pc = "sp_none" -> streams
                     [] rc_callers[c].pc = "sp_close" -> [streams EXCEPT ![stream] = "closed"]
                     [] OTHER -> [streams EXCEPT ![stream] = IF @ = "closed" THEN @ ELSE "stopped"]
    /\ stream' = IF rc_callers[c].pc = "sp_none" THEN 0 ELSE stream
    /\ rc_callers' = CASE rc_callers[c].pc = "sp_none" -> rc_goto(c, "sp_lock")
                        [] stream = 0 -> rc_return(c, "error", rc_callers[c].ret)
                        [] rc_callers[c].pc = "sp_stop" -> rc_goto(c, "sp_close")
                        [] OTHER -> rc_goto(c, "sp_none")
    /\ UNCHANGED <<recording, rc_chunks, rc_lock, rc_cb, captured, not_rc>>

\* with self._lock
sp_lock(c) ==
    /\ rc_callers[c].pc = "sp_lock"
    /\ rc_lock = "free"
    /\ rc_lock' = c
    /\ rc_callers' = rc_goto(c, "sp_take")
    /\ UNCHANGED <<recording, stream, streams, rc_chunks, rc_cb, captured, not_rc>>

\* np.concatenate(self._chunks): the chunks in list order, as one array
concatenate(cs) == cs

\* return the empty array, or concatenate, clear and return the audio
sp_take(c) ==
    /\ rc_callers[c].pc = "sp_take"
    /\ rc_callers' = rc_return(c, "stopped", concatenate(rc_chunks))
    /\ rc_chunks' = <<>>
    /\ rc_lock' = "free"
    /\ UNCHANGED <<recording, stream, streams, rc_cb, captured, not_rc>>

\* The driver calls _audio_callback for an active stream: chunk = indata.copy()
cb_begin(s) ==
    /\ rc_cb.pc = "idle"
    /\ streams[s] = "active"
    /\ rc_cb.n < MaxChunks
    /\ rc_cb' = [pc |-> "lock", s |-> s, n |-> rc_cb.n + 1]
    /\ UNCHANGED <<recording, stream, streams, rc_chunks, rc_lock, rc_callers, captured, not_rc>>

\* with self._lock
cb_lock ==
    /\ rc_cb.pc = "lock"
    /\ rc_lock = "free"
    /\ rc_lock' = "cb"
    /\ rc_cb' = [rc_cb EXCEPT !.pc = "append"]
    /\ UNCHANGED <<recording, stream, streams, rc_chunks, rc_callers, captured, not_rc>>

\* self._chunks.append(chunk), and the callback returns
cb_append ==
    /\ rc_cb.pc = "append"
    /\ rc_chunks' = Append(rc_chunks, rc_cb.n)
    /\ captured' = Append(captured, rc_cb.n)
    /\ rc_lock' = "free"
    /\ rc_cb' = [rc_cb EXCEPT !.pc = "idle", !.s = 0]
    /\ UNCHANGED <<recording, stream, streams, rc_callers, not_rc>>

\* The recorder under start() and stop() calls from the threads in S.
RcNext(S) ==
    \/ \E c \in S : call_start(c)
    \/ \E c \in S : sa_clear(c)
    \/ \E c \in S : sa_flag(c)
    \/ \E c \in S, ok \in BOOLEAN : sa_open(c, ok)
    \/ \E c \in S, ok \in BOOLEAN : sa_start(c, ok)
    \/ \E c \in S : sa_except(c)
    \/ \E c \in S : rc_call_stop(c)
    \/ \E c \in S : sp_flag(c)
    \/ \E c \in S : sp_stream(c)
    \/ \E c \in S : sp_lock(c)
    \/ \E c \in S : sp_take(c)
    \/ \E s \in 1..Len(streams) : cb_begin(s)
    \/ cb_lock
    \/ cb_append

RcAllNext == RcNext(RcCallers)

RcOneNext == RcNext({"u1"})

(***************************************************************************)
(* TTSManager                                                              *)
(***************************************************************************)

Engines == {"piper", "edge"}

\* PiperEngine.sample_rate and EdgeEngine.sample_rate
PiperRate == 22050

EdgeRate == 24000

sample_rate(e) == IF e = "piper" THEN PiperRate ELSE EdgeRate

\* Voice names callers pass, and PiperVoiceManager's installed models.
Voices == {"amy", "bob", "en-US-AriaNeural"}

InstalledVoices == {"amy"}

\* name.endswith("Neural")
ends_neural(name) == name \in {"en-US-AriaNeural"}

\* No _synthesize call yet. Of a call: pref is self._preferred at the call,
\* fails the backends whose synthesize() raises, tried the backends called,
\* pcm the backend whose audio is returned, rate the rate returned with it.
no_syn == [pref |-> "none", fails |-> {}, tried |-> <<>>, pcm |-> "none", rate |-> 0,
           raised |-> FALSE]

\* No set_voice call yet. Of a call: name and engine are its arguments
\* (engine "none" for no hint), pref, piper and edge are self._preferred and
\* the backends' voices when it was made, raised tells FileNotFoundError
\* left it.
no_sv == [name |-> "none", engine |-> "none", pref |-> "none", piper |-> "none",
          edge |-> "none", raised |-> FALSE]

SyInit ==
    /\ preferred = "none"
    /\ piper_voice = "none"
    /\ edge_voice = "en-US-AriaNeural"
    /\ syn = no_syn
    /\ sv = no_sv

\* An except clause that swallows FileNotFoundError whatever the hint.
reraise_never(engine) == FALSE

\* except FileNotFoundError: if engine == "piper": raise
reraise(engine) == engine = "piper"

\* if engine == "piper" or (engine is None and not name.endswith("Neural"))
local_asked(name, engine) == engine = "piper" \/ (engine = "none" /\ ~ends_neural(name))

\* TTSManager.set_voice(name, engine), engine "none" for no hint
set_voice(name, engine) ==
    /\ IF local_asked(name, engine)
       THEN IF name \in InstalledVoices
            THEN /\ piper_voice' = name
                 /\ preferred' = "piper"
                 /\ UNCHANGED edge_voice
            ELSE IF reraise(engine)
            THEN UNCHANGED <<preferred, piper_voice, edge_voice>>
            ELSE /\ edge_voice' = name
                 /\ preferred' = "edge"
                 /\ UNCHANGED piper_voice
       ELSE /\ edge_voice' = name
            /\ preferred' = "edge"
            /\ UNCHANGED piper_voice
    /\ sv' = [name |-> name, engine |-> engine, pref |-> preferred,
              piper |-> piper_voice, edge |-> edge_voice,
              raised |-> local_asked(name, engine) /\ name \notin InstalledVoices
                         /\ reraise(engine)]
    /\ UNCHANGED <<syn, not_sy>>

\* A backend order that ignores the preference.
local_first == <<"piper", "edge">>

engine_order == IF preferred = "edge" THEN <<"edge", "piper">> ELSE <<"piper", "edge">>

\* The loop of _synthesize from the i-th backend of the order on.
RECURSIVE synthesize_from(_, _, _)
synthesize_from(call, order, i) ==
    IF i > Len(order) THEN [call EXCEPT !.raised = TRUE]
    ELSE IF order[i] \in call.fails
    THEN synthesize_from([call EXCEPT !.tried = Append(@, order[i])], order, i + 1)
    ELSE [call EXCEPT !.tried = Append(@, order[i]),
                      !.pcm = order[i],
                      !.rate = sample_rate(order[i])]

\* TTSManager._synthesize(text), with the backends in `fails` raising
synthesize(fails) ==
    /\ syn' = synthesize_from([no_syn EXCEPT !.pref = preferred, !.fails = fails],
                               engine_order, 1)
    /\ UNCHANGED <<preferred, piper_voice, edge_voice, sv, not_sy>>

SyNext ==
    \/ \E name \in Voices, engine \in {"none", "piper", "edge"} : set_voice(name, engine)
    \/ \E fails \in SUBSET Engines : synthesize(fails)

(***************************************************************************)
(* STTEngine.listen                                                        *)
(***************************************************************************)

SAMPLE_RATE == 16000

VAD_FRAME_MS == 30

VAD_FRAME_SAMPLES == (SAMPLE_RATE * VAD_FRAME_MS) \div 1000

\* Frames of the signal the microphone delivers before it falls silent for
\* good, at most.
MaxSig == 3

\* The signals: the frames the microphone delivers, TRUE for a frame that
\* EnergyVAD.is_speech accepts; all frames after them are silent.
Signals == UNION {[1..n -> BOOLEAN] : n \in 0..MaxSig}

\* self.silence_limit in milliseconds, and the sample_rate argument
SilenceLimits == {20, 60, 100}

Rates == {SAMPLE_RATE, SAMPLE_RATE \div 2}

\* int(self.silence_limit * sample_rate / chunk_samples), the limit in ms
silence_chunks(limit, rate) == (limit * rate) \div (1000 * VAD_FRAME_SAMPLES)

\* No listen() call yet. Of a call: sig is the signal still to come, limit
\* and rate its silence limit and sample rate, silence_chunks, silent_count,
\* speech_started and audio_chunks the locals of that name; result is "text"
\* with the buffer handed to transcribe() in audio, "empty", or "error".
\* History: heard holds the frames read from the first speech frame on,
\* spoken counts the speech frames read, broke tells the break statement
\* ended the loop, stopped that stop_listening() ran during the loop, late
\* counts the frames read since, cancelled that stop_listening() ran since
\* the call.
ls_rest == [pc |-> "idle", sig |-> <<>>, limit |-> 0, rate |-> 0, silence_chunks |-> 0,
            silent_count |-> 0, speech_started |-> FALSE, audio_chunks |-> <<>>,
            result |-> "none", audio |-> <<>>,
            heard |-> <<>>, spoken |-> 0, broke |-> FALSE, stopped |-> FALSE, late |-> 0,
            cancelled |-> FALSE]

LsInit ==
    /\ listening = FALSE
    /\ ls = ls_rest

\* listen(language, sample_rate) is called, with the loaded model
call_listen(sig, limit, rate) ==
    /\ ls.pc = "idle"
    /\ ls' = [ls_rest EXCEPT !.pc = "flag", !.sig = sig, !.limit = limit, !.rate = rate]
    /\ UNCHANGED <<listening, not_ls>>

\* self._listening = True, and the locals
ls_flag ==
    /\ ls.pc = "flag"
    /\ listening' = TRUE
    /\ ls' = [ls EXCEPT !.pc = "open",
                        !.silence_chunks = silence_chunks(ls.limit, ls.rate)]
    /\ UNCHANGED not_ls

\* with sd.InputStream(...) as stream, which raises PortAudioError unless ok
ls_open(ok) ==
    /\ ls.pc = "open"
    /\ ls' = IF ok THEN [ls EXCEPT !.pc = "test"]
             ELSE [ls EXCEPT !.pc = "idle", !.result = "error"]
    /\ UNCHANGED <<listening, not_ls>>

\* A loop test that ignores the flag.
loop_forever == TRUE

\* while self._listening
loop_test == listening

ls_test ==
    /\ ls.pc = "test"
    /\ ls' = [ls EXCEPT !.pc = IF loop_test THEN "read" ELSE "after"]
    /\ UNCHANGED <<listening, not_ls>>

\* A speech frame that leaves the count as it is.
count_kept(count) == count

\* silent_count = 0
count_reset(count) == 0

\* The next frame of the signal, silent when the signal is over.
next_frame == IF ls.sig = <<>> THEN FALSE ELSE Head(ls.sig)

\* chunk, _ = stream.read(chunk_samples), and the body of the loop
ls_read ==
    /\ ls.pc = "read"
    /\ LET speech == next_frame
           heard == [ls EXCEPT !.sig = IF ls.sig = <<>> THEN <<>> ELSE Tail(ls.sig),
                               !.heard = IF speech \/ @ # <<>> THEN Append(@, speech) ELSE @,
                               !.spoken = IF speech THEN @ + 1 ELSE @,
                               !.late = IF ls.stopped THEN @ + 1 ELSE @]
       IN ls' = IF speech
                THEN [heard EXCEPT !.pc = "test",
                                   !.speech_started = TRUE,
                                   !.silent_count = count_reset(@),
                                   !.audio_chunks = Append(@, speech)]
                ELSE IF ls.speech_started
                THEN [heard EXCEPT !.pc = IF ls.silent_count + 1 >= ls.silence_chunks
                                          THEN "after" ELSE "test",
                                   !.broke = ls.silent_count + 1 >= ls.silence_chunks,
                                   !.silent_count = @ + 1,
                                   !.audio_chunks = Append(@, speech)]
                ELSE [heard EXCEPT !.pc = "test"]
    /\ UNCHANGED <<listening, not_ls>>

\* if not audio_chunks: return TranscriptionResult(text=""); otherwise
\* return self.transcribe(np.concatenate(audio_chunks))
ls_after ==
    /\ ls.pc = "after"
    /\ ls' = IF ls.audio_chunks = <<>>
             THEN [ls EXCEPT !.pc = "idle", !.result = "empty"]
             ELSE [ls EXCEPT !.pc = "idle", !.result = "text", !.audio = ls.audio_chunks]
    /\ UNCHANGED <<listening, not_ls>>

\* stop_listening(), from another thread
stop_listening ==
    /\ listening' = FALSE
    /\ ls' = [ls EXCEPT !.stopped = @ \/ ls.pc \in {"test", "read"},
                        !.cancelled = @ \/ ls.pc # "idle"]
    /\ UNCHANGED not_ls

\* The steps of the thread inside listen().
ls_step ==
    \/ ls_flag
    \/ \E ok \in BOOLEAN : ls_open(ok)
    \/ ls_test
    \/ ls_read
    \/ ls_after

LsNext ==
    \/ \E sig \in Signals, limit \in SilenceLimits, rate \in Rates :
          call_listen(sig, limit, rate)
    \/ ls_step
    \/ stop_listening

(***************************************************************************)
(* OrionVoiceApp: the recording flow                                       *)
(***************************************************************************)

\* A thread outside the recording callbacks. Of its last call: op is
\* "start" for _start_recording and "stop" for _stop_recording, found tells
\* the test under the lock let it through, audio is what recorder.stop()
\* returned, last the way it ended. History: session is the audio captured
\* when recorder.stop() returned, sid the number of streams opened by then.
orc_rest == [pc |-> "idle", op |-> "none", found |-> FALSE, audio |-> <<>>, last |-> "none",
             session |-> <<>>, sid |-> 0]

OrInit ==
    /\ rec_lock = "free"
    /\ orc = [t \in RcCallers |-> orc_rest]
    /\ spawned = <<>>

\* A with statement that does not wait for the lock.
rec_lock_ignored == TRUE

\* with self._recording_lock, which blocks while another thread holds it
rec_lock_free == rec_lock = "free"

\* The hotkey callback _start_recording or _stop_recording is invoked
or_call(t, op) ==
    /\ orc[t].pc = "idle"
    /\ orc' = [orc EXCEPT ![t] = [orc_rest EXCEPT !.pc = "lock", !.op = op]]
    /\ UNCHANGED <<rec_lock, spawned, not_or>>

or_lock(t) ==
    /\ orc[t].pc = "lock"
    /\ rec_lock_free
    /\ rec_lock' = t
    /\ orc' = [orc EXCEPT ![t].pc = "check"]
    /\ UNCHANGED <<spawned, not_or>>

\* if self.recorder is None or [not] self.recorder.is_recording: return,
\* with self.recorder the AudioRecorder of _init_engines
or_check(t) ==
    /\ orc[t].pc = "check"
    /\ IF recording = (orc[t].op = "stop")
       THEN /\ orc' = [orc EXCEPT ![t].pc = "call", ![t].found = TRUE]
            /\ UNCHANGED rec_lock
       ELSE /\ orc' = [orc EXCEPT ![t].pc = "idle", ![t].last = "noop"]
            /\ rec_lock' = "free"
    /\ UNCHANGED <<spawned, not_or>>

\* self.recorder.start() or self.recorder.stop() is entered, on this thread
or_enter(t) ==
    /\ orc[t].pc = "call"
    /\ IF orc[t].op = "start" THEN start_enter(t) ELSE rc_stop_enter(t)
    /\ orc' = [orc EXCEPT ![t].pc = "in"]
    /\ UNCHANGED <<rec_lock, spawned, not_rc_or>>

\* The recorder's call has returned or raised, and the with statement ends:
\* _start_recording logs a RuntimeError and returns; _stop_recording goes on
\* with the audio, unless recorder.stop() raised
or_leave(t) ==
    /\ orc[t].pc = "in"
    /\ rc_callers[t].pc = "idle"
    /\ rec_lock' = "free"
    /\ orc' = IF orc[t].op = "start" \/ rc_callers[t].last = "error"
              THEN [orc EXCEPT ![t].pc = "idle", ![t].last = rc_callers[t].last]
              ELSE [orc EXCEPT ![t].pc = "size", ![t].audio = rc_callers[t].ret,
                               ![t].session = captured, ![t].sid = Len(streams)]
    /\ UNCHANGED <<spawned, not_or>>

\* if audio.size == 0: return; otherwise
\* threading.Thread(target=self._transcribe_and_insert, args=(audio,)).start()
or_size(t) ==
    /\ orc[t].pc = "size"
    /\ IF orc[t].audio = <<>>
       THEN /\ orc' = [orc EXCEPT ![t].pc = "idle", ![t].last = "empty"]
            /\ UNCHANGED spawned
       ELSE /\ orc' = [orc EXCEPT ![t].pc = "idle", ![t].last = "spawned"]
            /\ spawned' = Append(spawned, [audio |-> orc[t].audio, sid |-> orc[t].sid])
    /\ UNCHANGED <<rec_lock, not_or>>

\* The recording callbacks on the threads of RcCallers, the recorder's
\* statements they run, and the driver's callbacks.
OrNext ==
    \/ \E t \in RcCallers, op \in {"start", "stop"} : or_call(t, op)
    \/ \E t \in RcCallers : or_lock(t)
    \/ \E t \in RcCallers : or_check(t)
    \/ \E t \in RcCallers : or_enter(t)
    \/ \E t \in RcCallers : or_leave(t)
    \/ \E t \in RcCallers : or_size(t)
    \/ \E c \in RcCallers : sa_clear(c)
    \/ \E c \in RcCallers : sa_flag(c)
    \/ \E c \in RcCallers, ok \in BOOLEAN : sa_open(c, ok)
    \/ \E c \in RcCallers, ok \in BOOLEAN : sa_start(c, ok)
    \/ \E c \in RcCallers : sa_except(c)
    \/ \E c \in RcCallers : sp_flag(c)
    \/ \E c \in RcCallers : sp_stream(c)
    \/ \E c \in RcCallers : sp_lock(c)
    \/ \E c \in RcCallers : sp_take(c)
    \/ \E s \in 1..Len(streams) : cb_begin(s)
    \/ cb_lock
    \/ cb_append

(***************************************************************************)
(* sync_push: pushes of one note id                                        *)
(***************************************************************************)

\* The requests the server handles at a time, each on its own connection.
Pushers == {"p1", "p2"}

\* updated_at values pushed: 1..MaxTs, in their order as strings.
MaxTs == 3

\* A request outside sync_push. Of its last push: ts is note.updated_at,
\* existing the updated_at its SELECT returned (0 for None), wrote the
\* updated_at its INSERT or UPDATE has written and not yet committed;
\* last is "merged", "kept" or "error".
push_rest == [pc |-> "idle", ts |-> 0, existing |-> 0, wrote |-> 0, last |-> "none"]

SnInit ==
    /\ stored = 0
    /\ db_lock = "free"
    /\ pushes = [p \in Pushers |-> push_rest]
    /\ top = 0

\* POST /api/sync/push with one note: db = await _get_db()
call_push(p, ts) ==
    /\ pushes[p].pc = "idle"
    /\ pushes' = [pushes EXCEPT ![p] = [push_rest EXCEPT !.pc = "select", !.ts = ts]]
    /\ top' = IF ts > top THEN ts ELSE top
    /\ UNCHANGED <<stored, db_lock, not_sn>>

\* SELECT updated_at FROM notes WHERE id = ?; existing = fetchone(): the
\* committed row, whatever another connection has written and not committed
push_select(p) ==
    /\ pushes[p].pc = "select"
    /\ pushes' = [pushes EXCEPT ![p].existing = stored, ![p].pc = "write"]
    /\ UNCHANGED <<stored, db_lock, top, not_sn>>

\* if note.updated_at > local_updated
newer(ts, existing) == ts > existing

\* if existing is None: INSERT ...; else if newer: UPDATE ... WHERE id = ?.
\* A write waits while another connection has a write transaction open; the
\* INSERT of an id that has a row by now raises IntegrityError, which ends
\* the request before its commit.
push_write(p) ==
    /\ pushes[p].pc = "write"
    /\ IF pushes[p].existing # 0 /\ ~newer(pushes[p].ts, pushes[p].existing)
       THEN /\ pushes' = [pushes EXCEPT ![p].pc = "commit"]
            /\ UNCHANGED db_lock
       ELSE /\ db_lock = "free"
            /\ IF pushes[p].existing = 0 /\ stored # 0
               THEN /\ pushes' = [pushes EXCEPT ![p].pc = "idle", ![p].last = "error"]
                    /\ UNCHANGED db_lock
               ELSE /\ pushes' = [pushes EXCEPT ![p].pc = "commit", ![p].wrote = pushes[p].ts]
                    /\ db_lock' = p
    /\ UNCHANGED <<stored, top, not_sn>>

\* The write fails with "database is locked": the other connection kept its
\* write transaction open for longer than the busy timeout.
push_busy(p) ==
    /\ pushes[p].pc = "write"
    /\ pushes[p].existing = 0 \/ newer(pushes[p].ts, pushes[p].existing)
    /\ db_lock \notin {"free", p}
    /\ pushes' = [pushes EXCEPT ![p].pc = "idle", ![p].last = "error"]
    /\ UNCHANGED <<stored, db_lock, top, not_sn>>

\* await db.commit(); db.close(); return SyncPushResponse(...)
push_commit(p) ==
    /\ pushes[p].pc = "commit"
    /\ stored' = IF pushes[p].wrote # 0 THEN pushes[p].wrote ELSE stored
    /\ db_lock' = IF db_lock = p THEN "free" ELSE db_lock
    /\ pushes' = [pushes EXCEPT ![p].pc = "idle",
                                ![p].last = IF pushes[p].wrote # 0 THEN "merged" ELSE "kept"]
    /\ UNCHANGED <<top, not_sn>>

SnSteps(S) ==
    \/ \E p \in S, ts \in 1..MaxTs : call_push(p, ts)
    \/ \E p \in S : push_select(p)
    \/ \E p \in S : push_write(p)
    \/ \E p \in S : push_busy(p)
    \/ \E p \in S : push_commit(p)

SnNext == SnSteps(Pushers)

(***************************************************************************)
(* OrionVoiceApp: start(), wait(), stop(), request_shutdown()              *)
(***************************************************************************)

Modes == {"server", "desktop", "headless"}

\* The app after OrionVoiceApp(config=config), main() before app.start().
\* uvicorn_server is "none", "running" or "should_exit"; signalled and
\* skipped are history: request_shutdown() has been called, stop() has
\* returned at its first test.
ShInit ==
    sh = [pc |-> "new", mode |-> "none", shutdown_event |-> FALSE,
          engines |-> FALSE, hotkeys |-> FALSE, recording |-> FALSE,
          speaking |-> FALSE, electron_proc |-> FALSE, server_thread |-> FALSE,
          uvicorn_server |-> "none", signalled |-> FALSE, skipped |-> FALSE]

with_voice == sh.mode \in {"desktop", "headless"}

\* main(): app.start(mode=args.mode, ...)
main_start(m) ==
    /\ sh.pc = "new"
    /\ sh' = [sh EXCEPT !.pc = "engines", !.mode = m]
    /\ UNCHANGED not_sh

\* start(): if mode in ("desktop", "headless"): self._init_engines(); an
\* exception of it leaves start() and takes main() to its finally clause
start_engines(ok) ==
    /\ sh.pc = "engines"
    /\ sh' = IF ~with_voice THEN [sh EXCEPT !.pc = "server"]
             ELSE IF ok THEN [sh EXCEPT !.pc = "server", !.engines = TRUE]
             ELSE [sh EXCEPT !.pc = "finally"]
    /\ UNCHANGED not_sh

\* start(): self._start_api_server(host=host, port=port)
start_server ==
    /\ sh.pc = "server"
    /\ sh' = [sh EXCEPT !.pc = "hotkeys", !.server_thread = TRUE]
    /\ UNCHANGED not_sh

\* The server thread: self._uvicorn_server = server; server.run()
run_server ==
    /\ sh.server_thread
    /\ sh.uvicorn_server = "none"
    /\ sh.pc # "exited"
    /\ sh' = [sh EXCEPT !.uvicorn_server = "running"]
    /\ UNCHANGED not_sh

\* start(): self._register_hotkeys(); self.hotkeys.start()
start_hotkeys ==
    /\ sh.pc = "hotkeys"
    /\ sh' = [sh EXCEPT !.pc = "electron", !.hotkeys = with_voice]
    /\ UNCHANGED not_sh

\* start(): if mode == "desktop": self._launch_electron(port=port), which
\* catches the failure of the launch
start_electron(ok) ==
    /\ sh.pc = "electron"
    /\ sh' = [sh EXCEPT !.pc = "wait", !.electron_proc = (sh.mode = "desktop" /\ ok)]
    /\ UNCHANGED not_sh

\* A recording chord starts or ends a recording; the TTS starts or ends
\* speaking.
app_activity ==
    /\ sh.hotkeys
    /\ sh.pc # "exited"
    /\ \/ sh' = [sh EXCEPT !.recording = ~sh.recording]
       \/ sh' = [sh EXCEPT !.speaking = ~sh.speaking]
    /\ UNCHANGED not_sh

\* _signal_handler: app.request_shutdown()
request_shutdown ==
    /\ sh.pc \notin {"new", "exited"}
    /\ sh' = [sh EXCEPT !.shutdown_event = TRUE, !.signalled = TRUE]
    /\ UNCHANGED not_sh

\* wait(): self._shutdown_event.wait() returns
wait_returns ==
    /\ sh.pc = "wait"
    /\ sh.shutdown_event
    /\ sh' = [sh EXCEPT !.pc = "finally"]
    /\ UNCHANGED not_sh

\* stop(): if self._shutdown_event.is_set()
stopped_before == sh.shutdown_event

\* main(): finally: app.stop()
app_stop ==
    /\ sh.pc = "finally"
    /\ sh' = IF stopped_before
             THEN [sh EXCEPT !.pc = "exited", !.skipped = TRUE]
             ELSE [sh EXCEPT !.pc = "exited", !.shutdown_event = TRUE,
                             !.hotkeys = FALSE, !.recording = FALSE,
                             !.speaking = FALSE, !.electron_proc = FALSE,
                             !.uvicorn_server = IF sh.uvicorn_server = "none"
                                                THEN "none" ELSE "should_exit"]
    /\ UNCHANGED not_sh

ShNext ==
    \/ \E m \in Modes : main_start(m)
    \/ \E ok \in BOOLEAN : start_engines(ok)
    \/ start_server
    \/ run_server
    \/ start_hotkeys
    \/ \E ok \in BOOLEAN : start_electron(ok)
    \/ app_activity
    \/ request_shutdown
    \/ wait_returns
    \/ app_stop

(***************************************************************************)
(* The default bindings of the recording chords, on a keyboard             *)
(***************************************************************************)

\* The keys of the keyboard that take part in the two recording chords.
KbKeys == {"ctrl_l", "ctrl_r", "shift_r", "a", "t"}

\* create_default_bindings: push_to_talk and toggle_recording, both with
\* on_activate = start_recording and on_deactivate = stop_recording.
default_bindings ==
    << [name |-> "push_to_talk",
        b |-> [keys |-> <<"ctrl", "shift", "a">>, mode |-> "hold", deact |-> TRUE]],
       [name |-> "toggle_recording",
        b |-> [keys |-> <<"ctrl", "shift", "t">>, mode |-> "toggle", deact |-> TRUE]] >>

KbInit ==
    /\ held = {}
    /\ app_rec = FALSE

\* _start_recording (on_activate) and _stop_recording (on_deactivate), run
\* one after the other by the listener thread for the callbacks in log; ok
\* is whether the device opens.
RECURSIVE rec_after(_, _, _)
rec_after(rec, log, ok) ==
    IF log = <<>> THEN rec
    ELSE rec_after(IF Head(log)[2] = "on_activate"
                   THEN (IF rec THEN TRUE ELSE ok)
                   ELSE FALSE,
                   Tail(log), ok)

\* _register_hotkeys(); self.hotkeys.start()
kb_setup ==
    /\ ~listener
    /\ bindings = <<>>
    /\ bindings' = default_bindings
    /\ listener' = TRUE
    /\ UNCHANGED <<pressed, active_holds, active_toggles, fired, raised, sawEvent,
                   stable, kbvars, not_hk_kb>>

\* A key goes down: the listener thread runs _on_press and the callbacks.
kb_press(key, ok) ==
    /\ key \notin held
    /\ held' = held \cup {key}
    /\ press_event(key)
    /\ app_rec' = rec_after(app_rec, fired', ok)
    /\ UNCHANGED not_hk_kb

\* A key goes up: the listener thread runs _on_release and the callbacks.
kb_release(key) ==
    /\ key \in held
    /\ held' = held \ {key}
    /\ release_event(key)
    /\ app_rec' = rec_after(app_rec, fired', TRUE)
    /\ UNCHANGED not_hk_kb

KbNext ==
    \/ kb_setup
    \/ \E key \in KbKeys, ok \in BOOLEAN : kb_press(key, ok)
    \/ \E key \in KbKeys : kb_release(key)

(***************************************************************************)
(* Specifications                                                          *)
(***************************************************************************)

Init == HkInit /\ PlInit /\ PrInit /\ HlInit /\ NkInit /\ RcInit /\ SyInit /\ LsInit /\ OrInit /\ SnInit /\ ShInit /\ KbInit

\* The hotkey registry under every key event and registry call.
HkSpec == Init /\ [][HkNext]_vars

\* The runs of HkSpec in which only chord strings that parse are registered.
HkNextAllParse == HkNext /\ all_parse'

HkSpecAllParse == Init /\ [][HkNextAllParse]_vars

\* One player under calls from two threads, with its playback threads.
PlSpec == Init /\ [][PlNext]_vars

\* The same, following the playbacks of at most OnePlay play() calls.
PlOneSpec == Init /\ [][PlOneNext]_vars

\* The players of one process, under hotkey actions and API requests.
PrSpec == Init /\ [][PrNext]_vars

\* The hotkey registry statement by statement, with the threads at its lock.
HlSpec == Init /\ [][HlNext]_vars

\* The recorder under calls from two threads, with the driver's callbacks.
RcSpec == Init /\ [][RcAllNext]_vars

\* The recorder under the calls of one thread, with the driver's callbacks.
RcOneSpec == Init /\ [][RcOneNext]_vars

\* The recorder beside a player that is stopped and never played.
StopNext == RcOneNext \/ PlStopNext

StopSpec == Init /\ [][StopNext]_vars

\* listen() calls, one at a time, with stop_listening() at any moment.
LsSpec == Init /\ [][LsNext]_vars

\* The same, where the thread inside listen() keeps running.
LsFairSpec == Init /\ [][LsNext]_vars /\ WF_vars(ls_step)

\* The recording callbacks of the orchestrator on two threads.
OrSpec == Init /\ [][OrNext]_vars

\* Pushes of one note from two clients at a time.
SnSpec == Init /\ [][SnNext]_vars

\* main(): the app started, signalled and stopped.
ShSpec == Init /\ [][ShNext]_vars

\* The handlers, a thread that registers, and callbacks that register.
CbSpec == Init /\ [][CbNext]_vars

\* The recording chords pressed and released on the keyboard.
KbSpec == Init /\ [][KbNext]_vars

\* TTSManager under set_voice and _synthesize calls.
SySpec == Init /\ [][SyNext]_vars

\* _normalize_key on every key, beside every chord part.
NkSpecInit == HkInit /\ PlInit /\ PrInit /\ HlInit /\ NkInputs /\ RcInit /\ SyInit /\ LsInit /\ OrInit /\ SnInit /\ ShInit /\ KbInit

NkSpec == NkSpecInit /\ [][NkNext]_vars

(***************************************************************************)
(* Claims about the hotkey registry                                        *)
(***************************************************************************)

\* The chord of a registered name is fully pressed in the key set `down`.
full(name, down) == parse_keys(binding_of(name).keys) \subseteq down

is_mode(name, m) ==
    /\ binding_of(name).mode = m
    /\ ~parse_raises(binding_of(name).keys)

\* How often the callback `cb` of `name` is in the call log `log`.
calls(log, name, cb) == Cardinality({i \in 1..Len(log) : log[i] = <<name, cb>>})

\* C1: after every key event, a HOLD binding registered before the first
\* event and not re-registered is in the active-holds set if and only if its
\* required key-set is a subset of the pressed-key set.
C1_HoldIffChordPressed ==
    \A n \in stable :
        is_mode(n, "hold") => (n \in active_holds <=> full(n, pressed))

\* C2: the membership of a TOGGLE binding in the active-toggles set changes,
\* and its callbacks are invoked, on full-press edges only (a key-down that
\* takes its chord from not fully pressed to fully pressed): never on a
\* key-up, nor on a key-down with the chord already fully pressed. Stated
\* for the runs in which every registered chord parses.
C2_ToggleFlipsOnEdgesOnly ==
    [][\A n \in stable \cap stable' :
         (is_mode(n, "toggle") /\ all_parse) =>
            LET edge == ~full(n, pressed) /\ full(n, pressed')
                flipped == (n \in active_toggles) # (n \in active_toggles')
                called == calls(fired', n, "on_activate")
                          + calls(fired', n, "on_deactivate") > 0
            IN /\ flipped <=> edge
               /\ called => edge]_vars

\* The callbacks a step invokes for the HOLD bindings that have both
\* callbacks: on_activate once iff the step makes the chord fully pressed,
\* on_deactivate once iff the step ends it being fully pressed.
hold_step ==
    \A n \in stable \cap stable' :
        (is_mode(n, "hold") /\ binding_of(n).deact) =>
            /\ calls(fired', n, "on_activate")
                 = IF ~full(n, pressed) /\ full(n, pressed') THEN 1 ELSE 0
            /\ calls(fired', n, "on_deactivate")
                 = IF full(n, pressed) /\ ~full(n, pressed') THEN 1 ELSE 0

\* C3: for a HOLD binding, on_activate is invoked exactly once by the event
\* that makes the chord fully pressed and by no other event, and
\* on_deactivate exactly once by the event that ends it being fully pressed
\* and by no other event; so the two alternate, starting with on_activate.
C3_HoldCallbacksAlternate == [][hold_step]_vars

\* C10: no binding name is in both the active-holds and the active-toggles set.
C10_ActiveSetsDisjoint ==
    active_holds \cap active_toggles = {}

\* C11: stop() on a started manager leaves the pressed-key set, the
\* active-holds set and the active-toggles set empty and invokes no
\* callback, so no binding toggled on before stop() is still marked active
\* when start() is called again.
C11_StopClearsAllSets ==
    [][(listener /\ ~listener') =>
          /\ pressed' = {}
          /\ active_holds' = {}
          /\ active_toggles' = {}
          /\ fired' = <<>>]_vars

\* C12: no binding whose chord string names an unknown key is ever in the
\* registry (register() rejects it), and no key event ends with the
\* unknown-key error.
C12_UnknownKeyRejectedAtRegister ==
    /\ all_parse
    /\ ~raised

\* C13: while the loop of a key handler is in progress, no thread is inside
\* the body of register() or unregister(): such a thread is outside the
\* call or waits at the lock, so the bindings and the active sets change
\* under the loop by the loop only, and the loop never runs between the
\* statements of an unregister().
C13_RegisterAtomicForEvents ==
    ev.pc \in {"press_loop", "release_loop"} =>
        \A t \in Regs : regs[t].pc \in {"idle", "wait"}

\* C13's case: the press loop has evaluated a binding and has more to do,
\* while a thread that called unregister() waits at the lock.
C13_Witness ==
    /\ ev.pc = "press_loop"
    /\ ev.i > 1
    /\ ev.i <= Len(bindings)
    /\ \E t \in Regs : regs[t].pc = "wait" /\ regs[t].op = "unregister"

\* C14: the left and the right physical key of each modifier a chord string
\* can name normalize to the key _parse_keys gives for that modifier, and
\* normalizing a normalized key changes nothing.
C14_NormalizationCanonical ==
    /\ (Len(probe.outs) >= 1 /\ probe.part \in Modifiers /\ probe.key \in variants(probe.part))
          => probe.outs[1] = part_key(probe.part)
    /\ Len(probe.outs) = 2 => probe.outs[2] = probe.outs[1]

(***************************************************************************)
(* Claims about the playback controller                                    *)
(***************************************************************************)

alive_workers == {w \in 1..Len(workers) : is_alive(w)}

\* The thread is in, or about to enter, an output function.
can_output(w) == workers[w].pc \in {"begin", "sd_wait", "sd_check", "sd_play", "pg_poll"}

\* C4: at most one playback worker thread is alive at any time.
C4_AtMostOneWorkerAlive == Cardinality(alive_workers) <= 1

\* C5: when stop() returns, the state is IDLE and the worker it waited for
\* is no longer alive; stop() never returns while that worker can still
\* output audio.
C5_StopQuiescesWorker ==
    [][\A c \in Callers :
         (callers[c].pc = "st_idle" /\ callers[c].op = "stop" /\ callers'[c].pc = "idle") =>
            /\ state' = "IDLE"
            /\ (callers[c].target # 0 => ~can_output(callers[c].target))]_vars

\* No caller can start the thread any more: play() starts self._thread,
\* which now is another thread, or nobody is about to call start().
never_started(w) ==
    /\ workers[w].pc = "new"
    /\ thread # w \/ \A c \in Callers : callers[c].pc # "pl_start"

\* C6: on_done is invoked exactly once for every play() call that supplies
\* it: never twice, once by the time the call's worker has ended, and the
\* worker that is to invoke it is not left unstarted.
C6_OnDoneExactlyOnce ==
    \A w \in 1..Len(workers) :
        workers[w].cb =>
            /\ workers[w].ndone <= 1
            /\ (workers[w].pc = "exited" => workers[w].ndone = 1)
            /\ ~never_started(w)

is_prefix(s, t) == Len(s) <= Len(t) /\ \A k \in 1..Len(s) : s[k] = t[k]

C8_PauseResumeGuarded ==
    [][\A c \in Callers :
         /\ (callers[c].pc = "idle" /\ callers'[c].op = "pause")
               => (state = "PLAYING" /\ callers'[c].pc = "pa_clear"
                   /\ UNCHANGED <<state, pause_event, stop_event>>)
         /\ (callers[c].pc = "idle" /\ callers'[c].op = "resume")
               => (state = "PAUSED" /\ callers'[c].pc = "re_set"
                   /\ UNCHANGED <<state, pause_event, stop_event>>)
         /\ (callers[c].pc = "pa_clear" /\ callers'[c].pc # "pa_clear")
               => (~pause_event' /\ UNCHANGED <<state, stop_event>>)
         /\ (callers[c].pc = "pa_state" /\ callers'[c].pc # "pa_state")
               => (state' = "PAUSED" /\ UNCHANGED <<pause_event, stop_event>>)
         /\ (callers[c].pc = "re_set" /\ callers'[c].pc # "re_set")
               => (pause_event' /\ UNCHANGED <<state, stop_event>>)
         /\ (callers[c].pc = "re_state" /\ callers'[c].pc # "re_state")
               => (state' = "PLAYING" /\ UNCHANGED <<pause_event, stop_event>>)]_vars

\* C8's case: pause() has acted on a playing player: PAUSED, gate closed,
\* the worker waiting at the gate.
C8_Witness ==
    /\ state = "PAUSED"
    /\ ~pause_event
    /\ \A c \in Callers : callers[c].pc = "idle"
    /\ \E w \in 1..Len(workers) : workers[w].pc = "sd_wait"

(***************************************************************************)
(* Claims about the process                                                *)
(***************************************************************************)

\* C9: a process holds one _AudioPlayer, so that the orchestrator's
\* TTSManager and the API server's never have more than one playback thread
\* alive between them.
C9_OnePlayerPerProcess ==
    /\ Len(players) <= 1
    /\ Cardinality({p \in 1..Len(players) : players[p].alive}) <= 1

(***************************************************************************)
(* Claims about the recorder                                               *)
(***************************************************************************)

\* The streams that hold the input device: constructed and not closed.
unclosed == {s \in 1..Len(streams) : streams[s] # "closed"}

\* C15: under every interleaving of start() and stop() calls from several
\* threads, at most one input stream is open at a time, and an open stream
\* is the one self._stream refers to (no stream is left without an owner
\* to close it).
C15_OneStreamNoOrphan ==
    /\ Cardinality(unclosed) <= 1
    /\ \A s \in unclosed : s = stream

\* C16: a stop() that found the recorder recording returns the chunks the
\* callback appended since the matching start(), in arrival order (none if
\* there were none), and leaves the buffer empty, self._stream None, the
\* recorder not recording and every stream that was started closed.
C16_StopReturnsCaptured ==
    \A c \in RcCallers :
        (rc_callers[c].pc = "idle" /\ rc_callers[c].last = "stopped") =>
            /\ rc_callers[c].ret = captured
            /\ rc_chunks = <<>>
            /\ ~recording
            /\ stream = 0
            /\ \A s \in 1..Len(streams) : streams[s] \in {"closed", "open"}

\* C16's case: stop() has returned every chunk the driver delivered.
C16_Witness ==
    \E c \in RcCallers :
        /\ rc_callers[c].pc = "idle"
        /\ rc_callers[c].last = "stopped"
        /\ Len(rc_callers[c].ret) = MaxChunks

\* C17: a call made while the recorder is recording is a stop(), or it is a
\* start() that returns at once and changes neither the flag, the stream,
\* the streams constructed nor the buffered chunks.
C17_StartWhileRecordingNoOp ==
    [][\A c \in RcCallers :
         (recording /\ rc_callers[c].pc = "idle" /\ rc_callers'[c] # rc_callers[c]) =>
            \/ rc_callers'[c].pc = "sp_flag"
            \/ /\ rc_callers'[c] = rc_return(c, "start_noop", rc_callers[c].ret)[c]
               /\ UNCHANGED <<recording, stream, streams, rc_chunks, rc_lock, captured>>]_vars

\* C17's case: start() has returned as a no-op while a chunk captured before
\* it is in the buffer.
C17_Witness ==
    \E c \in RcCallers :
        /\ rc_callers[c].last = "start_noop"
        /\ recording
        /\ streams[stream] = "active"
        /\ Len(rc_chunks) >= 1

\* C18: when start() has raised because the device could not be opened or
\* started, the recorder is not recording, self._stream is None and no
\* stream is left open.
C18_FailedStartLeavesNoStream ==
    \A c \in RcCallers :
        (rc_callers[c].pc = "idle" /\ rc_callers[c].last = "start_failed") =>
            /\ ~recording
            /\ stream = 0
            /\ unclosed = {}

\* C19: a stop() goes past its first test only on a recording recorder;
\* otherwise it returns the empty array and leaves the recorder as it was;
\* and _AudioPlayer.stop() on a player that never played returns with the
\* state IDLE, no thread and the pause gate open.
C19_StopWithoutStart ==
    [][/\ \A c \in RcCallers :
            /\ (rc_callers[c].pc = "idle" /\ rc_callers'[c].pc = "sp_flag") => recording
            /\ (rc_callers[c].pc = "idle" /\ rc_callers'[c].pc = "idle"
                  /\ rc_callers'[c].last = "stop_noop")
                 => /\ rc_callers'[c].ret = <<>>
                    /\ UNCHANGED <<recording, stream, streams, rc_chunks, rc_lock>>
       /\ \A c \in Callers :
            (callers[c].pc = "st_idle" /\ callers'[c].pc = "idle" /\ workers = <<>>) =>
                /\ state' = "IDLE"
                /\ thread' = 0
                /\ pause_event']_vars

\* C19's case: both stop() calls have returned, with no start() and no
\* play() before them.
C19_Witness ==
    /\ streams = <<>>
    /\ \E c \in RcCallers : rc_callers[c].pc = "idle" /\ rc_callers[c].last = "stop_noop"
    /\ workers = <<>>
    /\ stop_event
    /\ state = "IDLE"
    /\ \A c \in Callers : callers[c].pc = "idle"

(***************************************************************************)
(* Claims about TTSManager                                                 *)
(***************************************************************************)

\* The order the backends are to be tried in: cloud first iff it is preferred.
preferred_first(pref) ==
    IF pref = "edge" THEN <<"edge", "piper">> ELSE <<"piper", "edge">>

\* The positions of the backends of the order that do not raise.
succeeding(call) ==
    {i \in 1..2 : preferred_first(call.pref)[i] \notin call.fails}

C21_ExplicitEngineNoFallback ==
    /\ (sv.engine = "piper" /\ sv.name \notin InstalledVoices) =>
           /\ sv.raised
           /\ preferred = sv.pref
           /\ piper_voice = sv.piper
           /\ edge_voice = sv.edge
    /\ sv.engine = "edge" =>
           /\ ~sv.raised
           /\ piper_voice = sv.piper
           /\ edge_voice = sv.name
           /\ preferred = "edge"

\* C21's case: the local backend is preferred with a voice selected, and a
\* set_voice for a voice that is not installed, engine="piper", has raised.
C21_Witness ==
    /\ sv.engine = "piper"
    /\ sv.name = "bob"
    /\ sv.raised
    /\ sv.pref = "piper"
    /\ piper_voice = "amy"

\* C22: after set_voice(name) with no engine hint the cloud backend holds the
\* voice and is preferred iff the name ends with "Neural"; otherwise the
\* local backend holds it and is preferred; the other backend's voice is as
\* it was.
C22_BackendByNameAlone ==
    (sv.name # "none" /\ sv.engine = "none" /\ ~sv.raised) =>
        IF ends_neural(sv.name)
        THEN preferred = "edge" /\ edge_voice = sv.name /\ piper_voice = sv.piper
        ELSE preferred = "piper" /\ piper_voice = sv.name /\ edge_voice = sv.edge

(***************************************************************************)
(* Claims about STTEngine.listen                                           *)
(***************************************************************************)

\* floor(silence_limit * sample_rate / frame_samples), the limit in ms
silence_frames(limit, rate) == (limit * rate) \div (1000 * VAD_FRAME_SAMPLES)

\* The number of silent frames at the end of a sequence of frames.
RECURSIVE trailing_silent(_)
trailing_silent(frames) ==
    IF frames = <<>> \/ frames[Len(frames)] THEN 0
    ELSE 1 + trailing_silent(SubSeq(frames, 1, Len(frames) - 1))

C24_NoSpeechTimesOut ==
    (ls.pc = "test" /\ ~ls.speech_started) ~> (ls.pc = "idle" \/ ls.speech_started)

\* Speech frames and then silent frames only.
speech_then_silence(frames) ==
    \A i, j \in 1..Len(frames) : (i < j /\ frames[j]) => frames[i]

\* C25: when the silence limit ends a listen() that heard S speech frames
\* and then silence, the buffer handed to transcription has S - 1 to S + 1
\* frames.
C25_BufferIsTheSpeech ==
    (ls.result = "text" /\ ls.broke /\ speech_then_silence(ls.heard)) =>
        Len(ls.audio) \in (ls.spoken - 1)..(ls.spoken + 1)

\* C26: after stop_listening() during the loop at most the frame being read
\* is still read; the frames accumulated are, at any moment, the frames read
\* from the first speech frame on; listen() hands exactly them to
\* transcription if there are any, and returns the empty result otherwise.
C26_StopKeepsFrames ==
    /\ ls.stopped => ls.late <= 1
    /\ ls.audio_chunks = ls.heard
    /\ ls.result = "text" => (ls.audio = ls.heard /\ ls.heard # <<>>)
    /\ ls.result = "empty" => ls.heard = <<>>
    /\ (ls.pc = "idle" /\ ls.stopped) => ls.result \in {"text", "empty"}

\* C26's case: stop_listening() ran while the second of two speech frames
\* was being read, and both were handed to transcription.
C26_Witness ==
    /\ ls.stopped
    /\ ~ls.broke
    /\ ls.late = 1
    /\ ls.result = "text"
    /\ ls.audio = <<TRUE, TRUE>>

(***************************************************************************)
(* Claims about the orchestrator's recording callbacks                     *)
(***************************************************************************)

\* The statements of AudioRecorder that open, start, stop or close the
\* input device.
DeviceIO == {"sa_open", "sa_start", "sp_stop", "sp_close"}

\* C27: a thread inside the callback _start_recording or _stop_recording
\* is never at a statement that does device I/O.
C27_CallbacksDoNoDeviceIO ==
    \A t \in RcCallers : orc[t].pc = "in" => rc_callers[t].pc \notin DeviceIO

\* The chunks of an audio array.
chunks_of(audio) == {audio[i] : i \in 1..Len(audio)}

\* C28: every worker spawned got non-empty audio; no two workers belong to
\* the same recording session or share captured audio; a _stop_recording
\* that found no recording has spawned none; one that found a recording got
\* exactly the audio captured in that session, and has spawned a worker
\* with it iff that audio is non-empty.
C28_OneWorkerPerSession ==
    /\ \A i \in 1..Len(spawned) : spawned[i].audio # <<>>
    /\ \A i, j \in 1..Len(spawned) :
          i # j => /\ spawned[i].sid # spawned[j].sid
                   /\ chunks_of(spawned[i].audio) \cap chunks_of(spawned[j].audio) = {}
    /\ \A t \in RcCallers :
          /\ orc[t].pc = "size" => orc[t].audio = orc[t].session
          /\ (orc[t].op = "stop" /\ orc[t].pc = "idle") =>
                IF orc[t].found
                THEN /\ orc[t].audio = orc[t].session
                     /\ orc[t].last = IF orc[t].session # <<>> THEN "spawned" ELSE "empty"
                     /\ orc[t].last = "spawned" =>
                           \E i \in 1..Len(spawned) :
                               spawned[i] = [audio |-> orc[t].session, sid |-> orc[t].sid]
                ELSE /\ orc[t].last = "noop"
                     /\ \A i \in 1..Len(spawned) : spawned[i].sid # orc[t].sid

\* C28's case: of two deactivations one found the recording and spawned the
\* worker with the two chunks captured, the other found none and spawned
\* nothing.
C28_Witness ==
    /\ orc["u1"].op = "stop" /\ orc["u1"].last = "spawned"
    /\ Len(orc["u1"].audio) = 2
    /\ orc["u2"].op = "stop" /\ orc["u2"].last = "noop"
    /\ Len(spawned) = 1

(***************************************************************************)
(* Claims about stopping the player                                        *)
(***************************************************************************)

\* C29: a worker that had output to make when stop() set the stop flag
\* passes no chunk to the device afterwards, but for the one it had already
\* tested the flag for.
C29_StoppedWorkerPlaysNoMore ==
    \A w \in 1..Len(workers) : workers[w].after <= 1

\* A stop() call, as such or as the first statement of play(), has set
\* STOPPED and not yet IDLE.
stop_in_progress ==
    \E c \in Callers : callers[c].pc \in {"st_check", "st_wait", "st_idle"}

C31_BufferOnlyUnderLock ==
    /\ \A c \in RcCallers : rc_callers[c].pc \in {"sa_clear", "sp_take"} => rc_lock = c
    /\ rc_cb.pc = "append" => rc_lock = "cb"

(***************************************************************************)
(* Claims about re-registration                                            *)
(***************************************************************************)

\* A step that replaces the binding of a registered name.
replaces(name) ==
    /\ name \in registered
    /\ Len(bindings') = Len(bindings)
    /\ bindings'[index_of(name)] # bindings[index_of(name)]

\* A step of _on_release that ends the activation of the name.
deactivates(name) ==
    /\ name \in active_holds /\ name \notin active_holds'
    /\ bindings' = bindings /\ listener' /\ name \in registered

\* C32: a register() that replaces the binding of a name in the active-holds
\* set invokes no callback and leaves the set as it is; the activation is
\* then ended only by a release after which the keys of the binding
\* registered now are not all pressed, and that release invokes on_deactivate
\* for the name iff the binding registered now has one.
C32_ReRegisterKeepsHoldActive ==
    [][\A name \in Names :
         /\ (replaces(name) /\ name \in active_holds) =>
               (fired' = <<>> /\ active_holds' = active_holds)
         /\ deactivates(name) =>
               /\ ~parse_raises(binding_of(name).keys)
               /\ ~(parse_keys(binding_of(name).keys) \subseteq pressed')
               /\ binding_of(name).deact <=>
                     (\E k \in 1..Len(fired') : fired'[k] = <<name, "on_deactivate">>)]_vars

\* C32's case: a name whose HOLD activation was started by a binding that
\* has been replaced by a TOGGLE binding is still in the active-holds set.
C32_Witness ==
    /\ "n1" \in active_holds
    /\ "n1" \in registered
    /\ binding_of("n1").mode = "toggle"
    /\ ~binding_of("n1").deact
    /\ fired = <<>>

(***************************************************************************)
(* Claims about sync_push                                                  *)
(***************************************************************************)

\* C33: the stored updated_at never decreases, and whenever no push is in
\* progress it is the greatest updated_at pushed so far.
C33_TimestampWins ==
    [][/\ stored' >= stored
       /\ (\A p \in Pushers : pushes'[p].pc = "idle") => stored' = top']_vars

(***************************************************************************)
(* Claims about the default bindings                                       *)
(***************************************************************************)

\* C34: a TOGGLE binding registered with on_activate only, as read_clipboard,
\* pause_tts and stop_tts are, has on_activate invoked by every key-down that
\* makes its chord fully pressed. Stated for the runs in which every
\* registered chord parses.
C34_EveryFullPressInvokes ==
    [][\A n \in stable \cap stable' :
         (/\ is_mode(n, "toggle")
          /\ ~binding_of(n).deact
          /\ all_parse
          /\ ~full(n, pressed)
          /\ full(n, pressed')) => calls(fired', n, "on_activate") = 1]_vars

(***************************************************************************)
(* Claims about the shutdown                                               *)
(***************************************************************************)

\* C35: once main() is through a stop() that followed a request_shutdown(),
\* the shutdown has been performed: the hotkey listener, the recording and
\* the TTS are stopped, the Electron process is ended and the server the
\* server thread has set up is told to exit.
C35_StopAfterSignalShutsDown ==
    (sh.pc = "exited" /\ sh.signalled) =>
        /\ ~sh.hotkeys
        /\ ~sh.recording
        /\ ~sh.speaking
        /\ ~sh.electron_proc
        /\ sh.uvicorn_server # "running"

(***************************************************************************)
(* Claims about register() inside a callback                               *)
(***************************************************************************)

\* C36: a callback that calls register() or unregister() never waits at the
\* with statement of the call for a lock the listener thread, which runs the
\* callback, holds itself: the call returns and the listener goes on.
C36_CallbackRegisterReturns ==
    regs["cb"].pc = "wait" => hk_lock # "listener"

(***************************************************************************)
(* Claims about the recording chords and the keyboard                      *)
(***************************************************************************)

\* C37: whenever toggle_recording is in the active-toggles set, the recorder
\* is recording.
C37_ToggleAgreesWithRecorder ==
    "toggle_recording" \in active_toggles => app_rec

\* C39: the pressed-key set holds exactly the canonical keys of the physical
\* keys that are down.
C39_PressedIffAVariantDown ==
    pressed = {normalize_key(k) : k \in held}

(***************************************************************************)
(* Claims about the state of the player and its workers                    *)
(***************************************************************************)

\* C38: while the state is IDLE, no playback worker is in, or about to
\* enter, an output function.
C38_IdleMeansNoOutput ==
    state = "IDLE" => \A w \in 1..Len(workers) : ~can_output(w)

(***************************************************************************)
(* Claims about the cancellation of listen()                               *)
(***************************************************************************)

\* C40: once stop_listening() has been called during a listen(), the flag
\* the loop of that listen() tests stays cleared until the listen() returns.
C40_CancellationNotLost ==
    (ls.pc # "idle" /\ ls.cancelled) => ~listening

====
